---- MODULE Spec2Model ----
(***************************************************************************)
(* Model of the step-table and summary engine of cellpy                    *)
(* (src/cellpy/readers/cellreader.py), of its incremental capacity         *)
(* analysis (src/cellpy/utils/ica.py) and of the batch tools               *)
(* (src/cellpy/utils/batch_tools).                                         *)
(*                                                                         *)
(* Numbers.  The program works on IEEE doubles held in pandas columns.     *)
(* They are modelled as exact fractions [n, d] in lowest terms with        *)
(* d >= 0; d = 0 encodes the non-finite doubles: 1/0 = inf, -1/0 = -inf    *)
(* and 0/0 = NaN.  Comparisons follow IEEE: any comparison with NaN is     *)
(* false.  Standard deviations (irrational) are not carried.               *)
(***************************************************************************)
EXTENDS Integers, Sequences, FiniteSets, TLC

VARIABLES tests,      \* cellpydata.tests: the list of loaded datasets
          converter,  \* an ica.Converter object
          experiment, \* a batch_tools CyclingExperiment object
          doers,      \* the batch_tools Doer objects constructed so far
          ret         \* outcome of the last call: what it returned or raised

vars == <<tests, converter, experiment, doers, ret>>

----------------------------------------------------------------------------
(* Doubles as fractions *)

Abs(i) == IF i < 0 THEN -i ELSE i

Sign(i) == IF i < 0 THEN -1 ELSE IF i > 0 THEN 1 ELSE 0

RECURSIVE GCD(_, _)
GCD(a, b) == IF b = 0 THEN a ELSE GCD(b, a % b)

Rat(n, d) ==
    IF d = 0 THEN [n |-> Sign(n), d |-> 0]
    ELSE LET g == GCD(Abs(n), Abs(d))
         IN  [n |-> Sign(d) * Sign(n) * (Abs(n) \div g), d |-> Abs(d) \div g]

Num(i) == [n |-> i, d |-> 1]

NaN == [n |-> 0, d |-> 0]

IsNaN(x) == x.n = 0 /\ x.d = 0

IsFinite(x) == x.d # 0

RLt(a, b) ==
    /\ ~IsNaN(a)
    /\ ~IsNaN(b)
    /\ IF a.d = 0 /\ b.d = 0 THEN a.n < b.n ELSE a.n * b.d < b.n * a.d

RGt(a, b) == RLt(b, a)

REq(a, b) == ~IsNaN(a) /\ ~IsNaN(b) /\ a = b

RNe(a, b) == ~REq(a, b)

RNeg(a) == [n |-> -a.n, d |-> a.d]

RAbs(a) == [n |-> Abs(a.n), d |-> a.d]

RAdd(a, b) ==
    IF IsNaN(a) \/ IsNaN(b) THEN NaN
    ELSE IF a.d = 0 /\ b.d = 0 THEN (IF a.n = b.n THEN a ELSE NaN)
    ELSE IF a.d = 0 THEN a
    ELSE IF b.d = 0 THEN b
    ELSE Rat(a.n * b.d + b.n * a.d, a.d * b.d)

RSub(a, b) == RAdd(a, RNeg(b))

RMul(a, b) ==
    IF IsNaN(a) \/ IsNaN(b) THEN NaN
    ELSE Rat(a.n * b.n, a.d * b.d)

\* numpy/pandas float division: x/0 is +-inf, 0/0 is NaN, no exception
RDiv(a, b) ==
    IF IsNaN(a) \/ IsNaN(b) THEN NaN
    ELSE IF a.d = 0 /\ b.d = 0 THEN NaN
    ELSE IF b.n = 0 THEN Rat(a.n, 0)
    ELSE Rat(a.n * b.d * Sign(b.n), a.d * Abs(b.n))

RMax(a, b) == IF RLt(a, b) THEN b ELSE a

RMin(a, b) == IF RLt(b, a) THEN b ELSE a

\* x < 10^-e and x > 10^-e, computed digit by digit: 10^13 does not fit a
\* machine integer of the checker, the comparison with it does
RECURSIVE NumLtPow10Neg(_, _, _)
NumLtPow10Neg(n, d, e) ==
    IF e = 0 THEN n < d
    ELSE IF n >= d THEN FALSE
    ELSE NumLtPow10Neg(n * 10, d, e - 1)

RECURSIVE NumGtPow10Neg(_, _, _)
NumGtPow10Neg(n, d, e) ==
    IF e = 0 THEN n > d
    ELSE IF n > d THEN TRUE
    ELSE IF n <= 0 THEN FALSE
    ELSE NumGtPow10Neg(n * 10, d, e - 1)

LtPow10Neg(x, e) ==
    /\ ~IsNaN(x)
    /\ IF x.d = 0 THEN x.n < 0 ELSE (x.n <= 0 \/ NumLtPow10Neg(x.n, x.d, e))

GtPow10Neg(x, e) ==
    /\ ~IsNaN(x)
    /\ IF x.d = 0 THEN x.n > 0 ELSE NumGtPow10Neg(x.n, x.d, e)

----------------------------------------------------------------------------
(* cellpydata._percentage_change and cellpydata._fractional_change *)

\* variant: default_zero is not honoured, a zero start yields the raw difference
PercentageChangeRawDifference(x0, x1, default_zero) ==
    IF REq(x0, Num(0))
    THEN RSub(x1, x0)
    ELSE RDiv(RMul(RSub(x1, x0), Num(100)), x0)

\* variant: no branch for a zero start, the division is always made
PercentageChangeUnguarded(x0, x1, default_zero) ==
    RDiv(RMul(RSub(x1, x0), Num(100)), x0)

\* the change from x0 to x1 in percent, (x1 - x0) * 100 / x0
PercentageChange(x0, x1, default_zero) ==
    IF REq(x0, Num(0))
    THEN LET difference == RSub(x1, x0)
         IN  IF RNe(difference, Num(0)) /\ default_zero
             THEN Num(0)
             ELSE difference
    ELSE RDiv(RMul(RSub(x1, x0), Num(100)), x0)

\* variant: the fraction the comment of the function announces, x1 / x0
FractionalChangeInverted(x0, x1, default_zero) ==
    IF REq(x1, Num(0))
    THEN IF default_zero THEN Num(0) ELSE NaN
    ELSE RDiv(x1, x0)

\* the fraction x0 / x1
FractionalChange(x0, x1, default_zero) ==
    IF REq(x1, Num(0))
    THEN IF default_zero THEN Num(0) ELSE NaN
    ELSE RDiv(x0, x1)

----------------------------------------------------------------------------
(* Column helpers over a frame (a sequence of rows, each a record) *)

Col(f, h) == [i \in 1..Len(f) |-> Num(f[i][h])]

RECURSIVE SeqSum(_)
SeqSum(s) == IF Len(s) = 0 THEN Num(0) ELSE RAdd(s[1], SeqSum(Tail(s)))

RECURSIVE SeqMax(_)
SeqMax(s) == IF Len(s) = 1 THEN s[1] ELSE RMax(s[1], SeqMax(Tail(s)))

RECURSIVE SeqMin(_)
SeqMin(s) == IF Len(s) = 1 THEN s[1] ELSE RMin(s[1], SeqMin(Tail(s)))

Mean(s) == RDiv(SeqSum(s), Num(Len(s)))

\* variant: numpy.unique(), the distinct values in ascending order
RECURSIVE SortedSeq(_)
SortedSeq(S) ==
    IF S = {} THEN <<>>
    ELSE LET least == CHOOSE x \in S : \A y \in S : x <= y
         IN  <<least>> \o SortedSeq(S \ {least})

UniqueSorted(s) == SortedSeq({s[i] : i \in 1..Len(s)})

\* Series.unique(): the distinct values in order of first appearance
RECURSIVE Unique(_)
Unique(s) ==
    IF Len(s) = 0 THEN <<>>
    ELSE LET front == Unique(SubSeq(s, 1, Len(s) - 1))
             last == s[Len(s)]
         IN  IF \E i \in 1..Len(front) : front[i] = last
             THEN front
             ELSE Append(front, last)

----------------------------------------------------------------------------
(* cellpydata._extract_step_values *)

\* f.iloc[0] on a frame without rows raises IndexError; nothing else is checked,
\* and f.iloc[0][IR_pct_change] raises KeyError while create_step_table has not
\* added that column to the time series
ExtractRaised(f) ==
    IF Len(f) = 0 THEN "IndexError"
    ELSE IF "IR_pct_change" \notin DOMAIN f[1] THEN "KeyError"
    ELSE "none"

\* avr, max, min, start, end, delta, rate of one column of the slice f
Describe(f, h) ==
    LET x == Col(f, h)
        t_delta == RSub(Num(f[Len(f)].Step_Time), Num(f[1].Step_Time))
        delta == PercentageChange(x[1], x[Len(f)], TRUE)
    IN  [avr |-> Mean(x), max |-> SeqMax(x), min |-> SeqMin(x),
         start |-> x[1], end |-> x[Len(f)],
         delta |-> delta, rate |-> FractionalChange(delta, t_delta, FALSE)]

\* the dictionary d returned, from the descriptions of the four columns
StepValuesDict(f, I, V, C, D) ==
        [I_avr |-> I.avr, I_max |-> I.max, I_min |-> I.min, I_start |-> I.start,
         I_end |-> I.end, I_delta |-> I.delta, I_rate |-> I.rate,
         V_avr |-> V.avr, V_max |-> V.max, V_min |-> V.min, V_start |-> V.start,
         V_end |-> V.end, V_delta |-> V.delta, V_rate |-> V.rate,
         Charge_avr |-> C.avr, Charge_max |-> C.max, Charge_min |-> C.min,
         Charge_start |-> C.start, Charge_end |-> C.end,
         Charge_delta |-> C.delta, Charge_rate |-> C.rate,
         Discharge_avr |-> D.avr, Discharge_max |-> D.max, Discharge_min |-> D.min,
         Discharge_start |-> D.start, Discharge_end |-> D.end,
         Discharge_delta |-> D.delta, Discharge_rate |-> D.rate,
         IR |-> Num(f[1].Internal_Resistance),
         IR_pct_change |-> f[1].IR_pct_change]

ExtractStepValues(f) ==
    StepValuesDict(f, Describe(f, "Current"), Describe(f, "Voltage"),
                   Describe(f, "Charge_Capacity"), Describe(f, "Discharge_Capacity"))

----------------------------------------------------------------------------
(* cellpydata.create_step_table: thresholds and masks of the classifier *)

\* current_limit_value_hard = 0.0000000000001, held as its decimal exponent
current_limit_value_hard == 13

stable_current_limit_soft == Num(4)

\* variant: the soft limit (4.0) taken for the hard one
stable_voltage_limit_soft_for_hard == Num(4)

stable_voltage_limit_hard == Num(2)

stable_charge_limit_hard == Num(2)

\* the value of a cell of df_steps that was never written (pandas NaN)
NotSet == "NaN"

list_of_step_types ==
    <<"charge", "discharge", "cv_charge", "cv_discharge", "charge_cv",
      "discharge_cv", "ocvrlx_up", "ocvrlx_down", "ir", "rest", "not_known">>

mask_no_current_hard(r) ==
    LtPow10Neg(RAdd(RAbs(r.I_max), RAbs(r.I_min)), current_limit_value_hard)

mask_voltage_down(r) == RLt(r.V_delta, RNeg(stable_voltage_limit_hard))

mask_voltage_up(r) == RGt(r.V_delta, stable_voltage_limit_hard)

mask_voltage_stable(r) == RLt(RAbs(r.V_delta), stable_voltage_limit_hard)

\* variant: the mask of rising current taken for the mask of falling current
mask_current_up(r) == RGt(r.I_delta, stable_current_limit_soft)

mask_current_down(r) == RLt(r.I_delta, RNeg(stable_current_limit_soft))

mask_current_negative(r) == GtPow10Neg(RNeg(r.I_avr), current_limit_value_hard)

mask_current_positive(r) == GtPow10Neg(r.I_avr, current_limit_value_hard)

mask_charge_changed(r) == RGt(RAbs(r.Charge_delta), stable_charge_limit_hard)

mask_discharge_changed(r) == RGt(RAbs(r.Discharge_delta), stable_charge_limit_hard)

\* variant: the rule of the commented-out line, which also asks for a change of
\* the internal resistance above ir_change_limit = 0.00001
mask_no_change_and_ir_changed(r) ==
    /\ REq(r.V_delta, Num(0))
    /\ REq(r.I_delta, Num(0))
    /\ REq(r.Charge_delta, Num(0))
    /\ REq(r.Discharge_delta, Num(0))
    /\ RGt(RAbs(r.IR_pct_change), Rat(1, 100000))

mask_no_change(r) ==
    /\ REq(r.V_delta, Num(0))
    /\ REq(r.I_delta, Num(0))
    /\ REq(r.Charge_delta, Num(0))
    /\ REq(r.Discharge_delta, Num(0))

\* variant: the last statement writes rest
RuleLabelsWithRest ==
    <<"ocvrlx_up", "ocvrlx_down", "discharge", "charge", "cv_discharge",
      "cv_charge", "rest">>

\* the df_steps.loc[mask, type] = label statements, in program order
RuleLabels ==
    <<"ocvrlx_up", "ocvrlx_down", "discharge", "charge", "cv_discharge",
      "cv_charge", "ir">>

RuleMask(k, r) ==
    CASE k = 1 -> mask_no_current_hard(r) /\ mask_voltage_up(r)
      [] k = 2 -> mask_no_current_hard(r) /\ mask_voltage_down(r)
      [] k = 3 -> mask_discharge_changed(r) /\ mask_current_negative(r)
      [] k = 4 -> mask_charge_changed(r) /\ mask_current_positive(r)
      [] k = 5 -> mask_voltage_stable(r) /\ mask_current_negative(r) /\ mask_current_down(r)
      [] k = 6 -> mask_voltage_stable(r) /\ mask_current_positive(r) /\ mask_current_down(r)
      [] k = 7 -> mask_no_change(r)

\* variant: a priority tree, a cell once written is not overwritten
RECURSIVE ApplyRulesFirstMatch(_, _, _)
ApplyRulesFirstMatch(r, k, type) ==
    IF k > Len(RuleLabels) THEN type
    ELSE ApplyRulesFirstMatch(r, k + 1,
            IF RuleMask(k, r) /\ type = NotSet THEN RuleLabels[k] ELSE type)

\* the passes k, k+1, ... applied to a row whose type cell holds type
RECURSIVE ApplyRules(_, _, _)
ApplyRules(r, k, type) ==
    IF k > Len(RuleLabels) THEN type
    ELSE ApplyRules(r, k + 1, IF RuleMask(k, r) THEN RuleLabels[k] ELSE type)

\* the type cell of a row after all passes; the cell starts unset
StepType(r) == ApplyRules(r, 1, NotSet)

----------------------------------------------------------------------------
(* cellpydata.create_step_table: building the table *)

\* df[IR_pct_change] = df[Internal_Resistance].pct_change(): the fractional
\* change to the previous row, NaN in the first row
WithIrChange(df) ==
    [i \in 1..Len(df) |->
        [Cycle_Index |-> df[i].Cycle_Index,
         Step_Index |-> df[i].Step_Index,
         Data_Point |-> df[i].Data_Point,
         Step_Time |-> df[i].Step_Time,
         Current |-> df[i].Current,
         Voltage |-> df[i].Voltage,
         Charge_Capacity |-> df[i].Charge_Capacity,
         Discharge_Capacity |-> df[i].Discharge_Capacity,
         Internal_Resistance |-> df[i].Internal_Resistance,
         IR_pct_change |->
            IF i = 1 THEN NaN
            ELSE RDiv(RSub(Num(df[i].Internal_Resistance),
                           Num(df[i - 1].Internal_Resistance)),
                      Num(df[i - 1].Internal_Resistance))]]

CycleOf(df) == [i \in 1..Len(df) |-> df[i].Cycle_Index]

StepOf(df) == [i \in 1..Len(df) |-> df[i].Step_Index]

\* df.groupby([cycle, step]).size().shape[0]
NumberOfRows(df) ==
    Cardinality({<<df[i].Cycle_Index, df[i].Step_Index>> : i \in 1..Len(df)})

\* variant: the inner loop runs over every row of the cycle, not over unique()
StepsOfCycleEveryRow(df, cycle) ==
    LET InCycle(row) == row.Cycle_Index = cycle
        steps == StepOf(SelectSeq(df, InCycle))
    IN  [j \in 1..Len(steps) |-> <<cycle, steps[j]>>]

\* the (cycle, step) pairs in the order the two nested loops visit them
StepsOfCycle(df, cycle) ==
    LET InCycle(row) == row.Cycle_Index = cycle
        steps == Unique(StepOf(SelectSeq(df, InCycle)))
    IN  [j \in 1..Len(steps) |-> <<cycle, steps[j]>>]

RECURSIVE VisitOrder(_, _)
VisitOrder(df, list_of_cycles) ==
    IF Len(list_of_cycles) = 0 THEN <<>>
    ELSE StepsOfCycle(df, list_of_cycles[1]) \o VisitOrder(df, Tail(list_of_cycles))

\* df_step of one visit and the row written at df_steps.iloc[counter]
StepSlice(df, pair) ==
    LET InStep(row) == row.Cycle_Index = pair[1] /\ row.Step_Index = pair[2]
    IN  SelectSeq(df, InStep)

\* the cells of the row filled from the values v of the step
StepRowOf(pair, v, type) ==
        [cycle |-> pair[1], step |-> pair[2],
         I_avr |-> v.I_avr, I_max |-> v.I_max, I_min |-> v.I_min,
         I_start |-> v.I_start, I_end |-> v.I_end,
         I_delta |-> v.I_delta, I_rate |-> v.I_rate,
         V_avr |-> v.V_avr, V_max |-> v.V_max, V_min |-> v.V_min,
         V_start |-> v.V_start, V_end |-> v.V_end,
         V_delta |-> v.V_delta, V_rate |-> v.V_rate,
         Charge_avr |-> v.Charge_avr, Charge_max |-> v.Charge_max,
         Charge_min |-> v.Charge_min, Charge_start |-> v.Charge_start,
         Charge_end |-> v.Charge_end, Charge_delta |-> v.Charge_delta,
         Charge_rate |-> v.Charge_rate,
         Discharge_avr |-> v.Discharge_avr, Discharge_max |-> v.Discharge_max,
         Discharge_min |-> v.Discharge_min, Discharge_start |-> v.Discharge_start,
         Discharge_end |-> v.Discharge_end, Discharge_delta |-> v.Discharge_delta,
         Discharge_rate |-> v.Discharge_rate,
         IR |-> v.IR, IR_pct_change |-> v.IR_pct_change,
         type |-> type, info |-> NotSet]

StepRow(df, pair, type) ==
    StepRowOf(pair, ExtractStepValues(StepSlice(df, pair)), type)

\* a row of df_steps as created: every cell unset
EmptyRow ==
    [cycle |-> NaN, step |-> NaN,
     I_avr |-> NaN, I_max |-> NaN, I_min |-> NaN, I_start |-> NaN, I_end |-> NaN,
     I_delta |-> NaN, I_rate |-> NaN,
     V_avr |-> NaN, V_max |-> NaN, V_min |-> NaN, V_start |-> NaN, V_end |-> NaN,
     V_delta |-> NaN, V_rate |-> NaN,
     Charge_avr |-> NaN, Charge_max |-> NaN, Charge_min |-> NaN,
     Charge_start |-> NaN, Charge_end |-> NaN, Charge_delta |-> NaN,
     Charge_rate |-> NaN,
     Discharge_avr |-> NaN, Discharge_max |-> NaN, Discharge_min |-> NaN,
     Discharge_start |-> NaN, Discharge_end |-> NaN, Discharge_delta |-> NaN,
     Discharge_rate |-> NaN,
     IR |-> NaN, IR_pct_change |-> NaN, type |-> NotSet, info |-> NotSet]

\* df_steps.iloc[counter] beyond the number_of_rows allocated raises IndexError
StepTableRaised(df) ==
    IF Len(VisitOrder(df, Unique(CycleOf(df)))) > NumberOfRows(df)
    THEN "IndexError"
    ELSE "none"

\* the row with its type cell as the classification passes leave it
Classified(row) == [row EXCEPT !.type = StepType(row)]

\* df_steps after the population loop and the classification passes
StepTable(df) ==
    LET order == VisitOrder(df, Unique(CycleOf(df)))
    IN  [k \in 1..NumberOfRows(df) |->
            Classified(IF k <= Len(order)
                       THEN StepRow(df, order[k], NotSet)
                       ELSE EmptyRow)]

\* the dataset after create_step_table: the time series with its new column and,
\* unless the call failed, the step table
CreateStepTableOn(test) ==
    LET df == WithIrChange(test.dfdata)
    IN  IF StepTableRaised(df) # "none"
        THEN [test EXCEPT !.dfdata = df]
        ELSE [test EXCEPT !.dfdata = df,
                          !.step_table = StepTable(df),
                          !.step_table_made = TRUE]

----------------------------------------------------------------------------
(* The outcome of a call *)

None == <<>>

NoCall == [op |-> "__init__", args |-> None, raised |-> "none", value |-> None]

Returned(op, args, value) ==
    [op |-> op, args |-> args, raised |-> "none", value |-> value]

Raised(op, args, exception) ==
    [op |-> op, args |-> args, raised |-> exception, value |-> None]

----------------------------------------------------------------------------
(* dataset.__init__ and the loaders: a dataset as it enters cellpydata.tests *)

Sample(cycle, step, point, time, current, voltage, charge, discharge, ir) ==
    [Cycle_Index |-> cycle, Step_Index |-> step, Data_Point |-> point,
     Step_Time |-> time, Current |-> current, Voltage |-> voltage,
     Charge_Capacity |-> charge, Discharge_Capacity |-> discharge,
     Internal_Resistance |-> ir]

\* the tester's statistics table: the last data point of every cycle
StatsOf(dfdata) ==
    LET IsLast(row) ==
            \A i \in 1..Len(dfdata) :
                dfdata[i].Cycle_Index = row.Cycle_Index
                    => dfdata[i].Data_Point <= row.Data_Point
    IN  SelectSeq(dfdata, IsLast)

NewDataset(dfdata) ==
    [mass |-> 1,
     dfdata |-> dfdata,
     dfsummary |-> StatsOf(dfdata),
     dfsummary_made |-> FALSE,
     step_table |-> <<>>,
     step_table_made |-> FALSE]

----------------------------------------------------------------------------
(* cellpydata._select_last and cellpydata._make_summary *)

PointOf(df) == [i \in 1..Len(df) |-> df[i].Data_Point]

SeqToSet(s) == {s[i] : i \in 1..Len(s)}

IntMax(S) == CHOOSE m \in S : \A x \in S : x <= m

\* max() of an empty column raises ValueError: for a frame without rows, and
\* for a cycle j + 1 of range(max_step) that has no row
SelectLastRaised(dfdata) ==
    IF Len(dfdata) = 0 THEN "ValueError"
    ELSE IF \E j \in 1..IntMax(SeqToSet(CycleOf(dfdata))) :
                j \notin SeqToSet(CycleOf(dfdata))
         THEN "ValueError"
         ELSE "none"

\* the data points that _select_last collects in steps
SelectLast(dfdata) ==
    {IntMax({dfdata[i].Data_Point : i \in {k \in 1..Len(dfdata) :
                                            dfdata[k].Cycle_Index = j}}) :
        j \in 1..IntMax(SeqToSet(CycleOf(dfdata)))}

\* dfdata[summary_requirment]
SummaryRows(test, use_cellpy_stat_file) ==
    LET points == IF use_cellpy_stat_file
                  THEN SeqToSet(PointOf(test.dfsummary))
                  ELSE SelectLast(test.dfdata)
        Required(row) == row.Data_Point \in points
    IN  SelectSeq(test.dfdata, Required)

\* Series.cumsum()
CumSum(s) == [j \in 1..Len(s) |-> SeqSum(SubSeq(s, 1, j))]

\* variant: the difference taken the other way round, row j minus row j - 1
CapacityLossFromNext(cap) ==
    [j \in 1..Len(cap) |-> IF j = 1 THEN Num(0) ELSE RSub(cap[j], cap[j - 1])]

\* the loop over the index: 0.0 in row 0, else row j - 1 minus row j
CapacityLoss(cap) ==
    [j \in 1..Len(cap) |-> IF j = 1 THEN Num(0) ELSE RSub(cap[j - 1], cap[j])]

\* capacity in Ah to mAh/g
Normalized(cap, mass) == RDiv(RMul(cap, Num(1000000)), Num(mass))

\* the selected rows with the inserted columns
SummaryFrame(rows, inserted) ==
    [j \in 1..Len(rows) |->
        [Data_Point |-> rows[j].Data_Point,
         Cycle_Index |-> rows[j].Cycle_Index,
         Charge_Capacity |-> rows[j].Charge_Capacity,
         Discharge_Capacity |-> rows[j].Discharge_Capacity,
         discharge_cap |-> inserted.discharge_cap[j],
         charge_cap |-> inserted.charge_cap[j],
         cum_charge_cap |-> inserted.cum_charge_cap[j],
         coul_eff |-> inserted.coul_eff[j],
         coul_diff |-> inserted.coul_diff[j],
         cum_coul_diff |-> inserted.cum_coul_diff[j],
         discharge_cap_loss |-> inserted.discharge_cap_loss[j],
         charge_cap_loss |-> inserted.charge_cap_loss[j],
         cum_discharge_cap_loss |-> inserted.cum_discharge_cap_loss[j],
         cum_charge_cap_loss |-> inserted.cum_charge_cap_loss[j]]]

\* the columns in the order the program derives them
SummaryColumns(rows, discharge_capacity, charge_capacity, col_eff) ==
    LET col_diff ==
            [j \in 1..Len(rows) |-> RSub(charge_capacity[j], discharge_capacity[j])]
        discharge_loss == CapacityLoss(discharge_capacity)
        charge_loss == CapacityLoss(charge_capacity)
    IN  SummaryFrame(rows,
            [discharge_cap |-> discharge_capacity,
             charge_cap |-> charge_capacity,
             cum_charge_cap |-> CumSum(charge_capacity),
             coul_eff |-> col_eff,
             coul_diff |-> col_diff,
             cum_coul_diff |-> CumSum(col_diff),
             discharge_cap_loss |-> discharge_loss,
             charge_cap_loss |-> charge_loss,
             cum_discharge_cap_loss |-> CumSum(discharge_loss),
             cum_charge_cap_loss |-> CumSum(charge_loss)])

\* the summary frame built from the selected rows
Summary(rows, mass) ==
    SummaryColumns(
        rows,
        [j \in 1..Len(rows) |-> Normalized(Num(rows[j].Discharge_Capacity), mass)],
        [j \in 1..Len(rows) |-> Normalized(Num(rows[j].Charge_Capacity), mass)],
        [j \in 1..Len(rows) |->
            RDiv(RMul(Num(100), Num(rows[j].Charge_Capacity)),
                 Num(rows[j].Discharge_Capacity))])

\* "if not mass": None and 0 are both replaced by the mass of the dataset
MassUsed(test, mass) ==
    IF mass = None \/ mass = <<0>> THEN test.mass ELSE mass[1]

----------------------------------------------------------------------------
(* cellpydata.get_step_numbers and the optional extractions of _make_summary *)

\* get_cycle_numbers: np.amax of a column without rows raises ValueError
GetCycleNumbersRaised(df) == IF Len(df) = 0 THEN "ValueError" ELSE "none"

GetCycleNumbers(df) == SeqToSet(CycleOf(df))

\* the check at the head of get_step_numbers: without a step table it makes
\* one when force_step_table_creation is set, and gives up (None) otherwise
StepTableForSteps(test, force) ==
    IF test.step_table_made \/ ~force THEN test ELSE CreateStepTableOn(test)

\* get_step_numbers(steptype, allctypes=False): out[cycle] = [s1, s2, ...],
\* and [0] for a cycle without a step of the type
GetStepNumbers(test, steptype) ==
    [cycle \in GetCycleNumbers(test.dfdata) |->
        LET OfType(row) == row.type = steptype /\ row.cycle = cycle
            found == SelectSeq(test.step_table, OfType)
        IN  IF Len(found) = 0 THEN <<0>> ELSE [k \in 1..Len(found) |-> found[k].step]]

\* what a caller of get_step_numbers meets: the step table could not be made,
\* None was returned (the caller's own error when it uses it), or no cycles
StepNumbersRaised(test, force, on_none) ==
    IF test.step_table_made THEN GetCycleNumbersRaised(test.dfdata)
    ELSE IF ~force THEN on_none
    ELSE IF StepTableRaised(WithIrChange(test.dfdata)) # "none" THEN "IndexError"
    ELSE GetCycleNumbersRaised(test.dfdata)

\* the outcome of the stages of _make_summary so far
Stage(test, summary, raised) == [test |-> test, summary |-> summary, raised |-> raised]

\* dfsummary.insert of the columns cols[j] into row j
InsertColumns(summary, cols) == [j \in 1..Len(summary) |-> summary[j] @@ cols[j]]

\* only_zeros + value: the column is made from dfsummary[Discharge_Capacity] * 0.0
OnlyZerosPlus(row, value) == RAdd(RMul(Num(row.Discharge_Capacity), Num(0)), Num(value))

cycle_mode == "anode"

ocv1_type == IF cycle_mode = "anode" THEN "ocvrlx_up" ELSE "ocvrlx_down"

ocv2_type == IF cycle_mode = "anode" THEN "ocvrlx_down" ELSE "ocvrlx_up"

\* _get_ocv for one cycle: the frames of the steps of the type that have rows
\* (_select_step gives None for step 0), in the order of the dictionary
OcvFrames(test, cycle, ocv_type) ==
    LET steps == GetStepNumbers(test, ocv_type)[cycle]
        frames == [k \in 1..Len(steps) |-> StepSlice(test.dfdata, <<cycle, steps[k]>>)]
        HasRows(f) == Len(f) > 0
    IN  SelectSeq(frames, HasRows)

\* the cell of an ocv column: 0.0, overwritten by every frame of the cycle
OcvMin(row, frames) ==
    IF Len(frames) = 0 THEN OnlyZerosPlus(row, 0)
    ELSE SeqMin(Col(frames[Len(frames)], "Voltage"))

OcvMax(row, frames) ==
    IF Len(frames) = 0 THEN OnlyZerosPlus(row, 0)
    ELSE SeqMax(Col(frames[Len(frames)], "Voltage"))

OcvColumns(row, first, second) ==
    [ocv_first_min |-> OcvMin(row, first), ocv_first_max |-> OcvMax(row, first),
     ocv_second_min |-> OcvMin(row, second), ocv_second_max |-> OcvMax(row, second)]

\* find_ocv on a dataset as get_step_numbers left it; ocv_steps.items() on
\* None raises AttributeError
FindOcvOn(test, summary, raised) ==
    IF raised # "none"
    THEN Stage(test, summary, raised)
    ELSE Stage(test,
               InsertColumns(summary,
                   [j \in 1..Len(summary) |->
                       OcvColumns(summary[j],
                                  OcvFrames(test, summary[j].Cycle_Index, ocv1_type),
                                  OcvFrames(test, summary[j].Cycle_Index, ocv2_type))]),
               "none")

FindOcv(o, find_ocv, force) ==
    IF o.raised # "none" \/ ~find_ocv THEN o
    ELSE FindOcvOn(StepTableForSteps(o.test, force), o.summary,
                   StepNumbersRaised(o.test, force, "AttributeError"))

\* variant: the last step of the list whichever value is read
PickedStepAlwaysLast(steps, last) == steps[Len(steps)]

\* the step picked from out[cycle] (the last one for the end voltage, the first
\* one for the internal resistance) and the value read from its rows
PickedStep(steps, last) == IF last THEN steps[Len(steps)] ELSE steps[1]

PickedValue(f, h, last) == IF last THEN f[Len(f)][h] ELSE f[1][h]

\* variant: no "if step[-1]:" before the selection, step 0 selects no row
StepValueRaisedUnguarded(test, cycle, steptype, last) ==
    LET step == PickedStep(GetStepNumbers(test, steptype)[cycle], last)
    IN  IF Len(StepSlice(test.dfdata, <<cycle, step>>)) = 0
        THEN "IndexError"
        ELSE "none"

\* .values[-1] and .values[0] of a selection without rows raise IndexError
StepValueRaised(test, cycle, steptype, last) ==
    LET step == PickedStep(GetStepNumbers(test, steptype)[cycle], last)
    IN  IF step # 0 /\ Len(StepSlice(test.dfdata, <<cycle, step>>)) = 0
        THEN "IndexError"
        ELSE "none"

\* the value of one cycle: 0 when the step picked is 0 ("if step[-1]:")
StepValue(test, cycle, steptype, h, last) ==
    LET step == PickedStep(GetStepNumbers(test, steptype)[cycle], last)
    IN  IF step = 0 THEN 0
        ELSE PickedValue(StepSlice(test.dfdata, <<cycle, step>>), h, last)

\* the loop over dfsummary.index of find_end_voltage and of find_ir;
\* discharge_steps[cycle] on None raises TypeError in its first round
StepValuesRaised(test, summary, raised, last) ==
    IF raised = "TypeError" THEN (IF Len(summary) = 0 THEN "none" ELSE raised)
    ELSE IF raised # "none" THEN raised
    ELSE IF \E j \in 1..Len(summary), steptype \in {"discharge", "charge"} :
                StepValueRaised(test, summary[j].Cycle_Index, steptype, last) # "none"
         THEN "IndexError"
         ELSE "none"

EndVoltageColumns(test, row) ==
    [end_voltage_discharge |->
        OnlyZerosPlus(row, StepValue(test, row.Cycle_Index, "discharge", "Voltage", TRUE)),
     end_voltage_charge |->
        RAdd(RMul(Num(row.Charge_Capacity), Num(0)),
             Num(StepValue(test, row.Cycle_Index, "charge", "Voltage", TRUE)))]

FindEndVoltageOn(test, summary, raised) ==
    IF raised # "none"
    THEN Stage(test, summary, raised)
    ELSE Stage(test,
               InsertColumns(summary,
                   [j \in 1..Len(summary) |-> EndVoltageColumns(test, summary[j])]),
               "none")

FindEndVoltageIn(test, summary, raised) ==
    FindEndVoltageOn(test, summary, StepValuesRaised(test, summary, raised, TRUE))

FindEndVoltage(o, find_end_voltage, force) ==
    IF o.raised # "none" \/ ~find_end_voltage THEN o
    ELSE FindEndVoltageIn(StepTableForSteps(o.test, force), o.summary,
                          StepNumbersRaised(o.test, force, "TypeError"))

IrColumns(test, row) ==
    [ir_discharge |->
        OnlyZerosPlus(row, StepValue(test, row.Cycle_Index, "discharge",
                                     "Internal_Resistance", FALSE)),
     ir_charge |->
        OnlyZerosPlus(row, StepValue(test, row.Cycle_Index, "charge",
                                     "Internal_Resistance", FALSE))]

FindIrOn(test, summary, raised) ==
    IF raised # "none"
    THEN Stage(test, summary, raised)
    ELSE Stage(test,
               InsertColumns(summary, [j \in 1..Len(summary) |-> IrColumns(test, summary[j])]),
               "none")

FindIrIn(test, summary, raised) ==
    FindIrOn(test, summary, StepValuesRaised(test, summary, raised, FALSE))

FindIr(o, find_ir, force) ==
    IF o.raised # "none" \/ ~find_ir THEN o
    ELSE FindIrIn(StepTableForSteps(o.test, force), o.summary,
                  StepNumbersRaised(o.test, force, "TypeError"))

\* "if ensure_step_table: if not test.step_table_made: create_step_table()"
EnsureStepTable(test, ensure_step_table) ==
    IF ~ensure_step_table \/ test.step_table_made THEN Stage(test, <<>>, "none")
    ELSE Stage(CreateStepTableOn(test), <<>>, StepTableRaised(WithIrChange(test.dfdata)))

\* the selection of the rows and the columns derived from them
SummaryStage(o, mass, use_cellpy_stat_file) ==
    IF o.raised # "none" THEN o
    ELSE IF ~use_cellpy_stat_file /\ SelectLastRaised(o.test.dfdata) # "none"
    THEN Stage(o.test, <<>>, SelectLastRaised(o.test.dfdata))
    ELSE Stage(o.test,
               Summary(SummaryRows(o.test, use_cellpy_stat_file), MassUsed(o.test, mass)),
               "none")

\* _make_summary up to its last two statements, the stages in program order
MakeSummaryStages(test, a) ==
    FindIr(
        FindEndVoltage(
            FindOcv(
                SummaryStage(EnsureStepTable(test, a.ensure_step_table),
                             a.mass, a.use_cellpy_stat_file),
                a.find_ocv, a.force_step_table_creation),
            a.find_end_voltage, a.force_step_table_creation),
        a.find_ir, a.force_step_table_creation)

\* "test.dfsummary = dfsummary; test.dfsummary_made = True", not reached when
\* a stage raised; a step table made on the way stays
DatasetAfterSummary(o) ==
    IF o.raised # "none" THEN o.test
    ELSE [o.test EXCEPT !.dfsummary = o.summary, !.dfsummary_made = TRUE]

----------------------------------------------------------------------------
(* The numpy and scipy routines the Converter calls, in exact arithmetic *)

\* int() of a finite double: towards zero
Trunc(x) == Sign(x.n) * (Abs(x.n) \div x.d)

\* np.linspace(start, stop, num)
Linspace(start, stop, num) ==
    [i \in 1..num |->
        IF num = 1 THEN start
        ELSE RAdd(start, RMul(Num(i - 1), RDiv(RSub(stop, start), Num(num - 1))))]

\* the position of the least x, the first of them
ArgMin(x) ==
    CHOOSE i \in 1..Len(x) :
        /\ \A k \in 1..Len(x) : ~RLt(x[k], x[i])
        /\ \A j \in 1..(i - 1) : RLt(x[i], x[j])

Without(s, i) == SubSeq(s, 1, i - 1) \o SubSeq(s, i + 1, Len(s))

\* interp1d sorts the points by x (assume_sorted=False): the pairs <<x, y>>
RECURSIVE SortedPoints(_, _)
SortedPoints(x, y) ==
    IF Len(x) = 0 THEN <<>>
    ELSE <<(<<x[ArgMin(x)], y[ArgMin(x)]>>)>>
         \o SortedPoints(Without(x, ArgMin(x)), Without(y, ArgMin(x)))

\* np.searchsorted(x, x_new) clipped to 1..len(x)-1: the upper end of the
\* interval used, here as the position of its lower end
LowerEnd(p, x_new) ==
    LET below == Cardinality({i \in 1..Len(p) : RLt(p[i][1], x_new)})
    IN  IF below < 1 THEN 1 ELSE IF below > Len(p) - 1 THEN Len(p) - 1 ELSE below

\* interp1d._call_linear: slope * (x_new - x_lo) + y_lo
LinearAt(lo, hi, x_new) ==
    RAdd(RMul(RDiv(RSub(hi[2], lo[2]), RSub(hi[1], lo[1])), RSub(x_new, lo[1])), lo[2])

OutOfBounds(p, x_new) == RLt(x_new, p[1][1]) \/ RGt(x_new, p[Len(p)][1])

\* interp1d(x, y, kind='linear')(x_new) on two points or more; with
\* bounds_error=False and fill_value=NaN a point outside gives NaN
InterpolateOn(p, x_new) ==
    [i \in 1..Len(x_new) |->
        IF OutOfBounds(p, x_new[i]) THEN NaN
        ELSE LinearAt(p[LowerEnd(p, x_new[i])], p[LowerEnd(p, x_new[i]) + 1], x_new[i])]

Interpolate(x, y, x_new) == InterpolateOn(SortedPoints(x, y), x_new)

\* with the default bounds_error a point outside raises ValueError
InterpolateRaisedOn(p, x_new) ==
    IF \E i \in 1..Len(x_new) : OutOfBounds(p, x_new[i]) THEN "ValueError" ELSE "none"

InterpolateRaised(x, y, x_new) == InterpolateRaisedOn(SortedPoints(x, y), x_new)

savgol_filter_window_divisor_default == 50

savgol_filter_window_order == 3

\* the window of the Savitzky-Golay filters of pre_process_data and of
\* increment_data for a series of n points: 5 up to 250 points
SavgolWindowOf(w) == IF (IF w % 2 = 0 THEN w - 1 ELSE w) < 3 THEN 3 ELSE (IF w % 2 = 0 THEN w - 1 ELSE w)

SavgolWindow(n) ==
    SavgolWindowOf(Trunc(RDiv(Num(n), RMin(Num(savgol_filter_window_divisor_default),
                                           Rat(n, 5)))))

\* savgol_filter(x, window_length, polyorder), mode 'interp': polyorder must be
\* less than window_length and window_length at most the size of x
SavgolRaised(x) ==
    IF savgol_filter_window_order >= SavgolWindow(Len(x)) \/ SavgolWindow(Len(x)) > Len(x)
    THEN "ValueError"
    ELSE "none"

\* the least-squares cubic through five evenly spaced points w, at position p:
\* w[p] less the part of w along the fourth difference (1, -4, 6, -4, 1), whose
\* square is 70; at the middle these are the weights (-3, 12, 17, 12, -3)/35
FourthDifference == <<1, -4, 6, -4, 1>>

CubicFitAt(w, p) ==
    RSub(w[p],
         RMul(Rat(FourthDifference[p], 70),
              SeqSum([k \in 1..5 |-> RMul(Num(FourthDifference[k]), w[k])])))

\* the window of point i: centred on it, and the first or last five points at
\* the edges, where the fitted polynomial is evaluated off-centre
WindowStart(n, i) == IF i - 2 < 1 THEN 1 ELSE IF i - 2 > n - 4 THEN n - 4 ELSE i - 2

\* savgol_filter(x, 5, 3)
SavgolFilter(x) ==
    [i \in 1..Len(x) |->
        CubicFitAt(SubSeq(x, WindowStart(Len(x), i), WindowStart(Len(x), i) + 4),
                   i - WindowStart(Len(x), i) + 1)]

\* scipy.integrate.simps(y, x): Simpson's rule on pairs of intervals
\* (_basic_simps), and for an even number of samples the average of the rule
\* on the first N-1 samples plus a trapezoid at the end and the rule on the
\* last N-1 samples plus a trapezoid at the start (even='avg')
SimpsTerm(y0, y1, y2, h0, h1) ==
    RMul(RDiv(RAdd(h0, h1), Num(6)),
         RAdd(RAdd(RMul(y0, RSub(Num(2), RDiv(Num(1), RDiv(h0, h1)))),
                   RDiv(RMul(y1, RMul(RAdd(h0, h1), RAdd(h0, h1))), RMul(h0, h1))),
              RMul(y2, RSub(Num(2), RDiv(h0, h1)))))

BasicSimps(y, x, first, count) ==
    SeqSum([k \in 1..count |->
        SimpsTerm(y[first + 2 * k - 2], y[first + 2 * k - 1], y[first + 2 * k],
                  RSub(x[first + 2 * k - 1], x[first + 2 * k - 2]),
                  RSub(x[first + 2 * k], x[first + 2 * k - 1]))])

Trapezoid(y, x, i) == RMul(Rat(1, 2), RMul(RSub(x[i + 1], x[i]), RAdd(y[i + 1], y[i])))

Simps(y, x) ==
    IF Len(y) % 2 = 1 THEN BasicSimps(y, x, 1, (Len(y) - 1) \div 2)
    ELSE RAdd(RMul(Rat(1, 2), RAdd(BasicSimps(y, x, 1, (Len(y) - 2) \div 2),
                                   BasicSimps(y, x, 2, (Len(y) - 2) \div 2))),
              RMul(Rat(1, 2), RAdd(Trapezoid(y, x, Len(y) - 1), Trapezoid(y, x, 1))))

\* gaussian_filter1d(input, sigma): its weights are not rational, every element
\* of the result is carried as the filter applied to its input
GaussianFilter(input, sigma) ==
    [i \in 1..Len(input) |-> [gaussian_filter1d |-> input, sigma |-> sigma, at |-> i]]

\* an element that is a number, not a filter applied to its input
IsNumber(e) == DOMAIN e = {"n", "d"}

IsSeries(x) == \A i \in 1..Len(x) : IsNumber(x[i])

----------------------------------------------------------------------------
(* ica.Converter: the object and its first two methods *)

\* an attribute is None or holds a value
Some(x) == <<x>>

\* Converter.__init__; the attributes of the checks of inspect_data on pieces
\* of ten points (std_err_median, std_err_mean) are not carried
NewConverter ==
    [capacity |-> None, voltage |-> None,
     capacity_preprocessed |-> None, voltage_preprocessed |-> None,
     capacity_inverted |-> None, voltage_inverted |-> None,
     incremental_capacity |-> None, voltage_processed |-> None,
     voltage_inverted_step |-> None,
     pre_smoothing |-> TRUE, smoothing |-> TRUE, post_smoothing |-> TRUE,
     normalise |-> TRUE,
     normalising_factor |-> None, d_capacity_mean |-> None, d_voltage_mean |-> None,
     len_capacity |-> None, len_voltage |-> None,
     min_capacity |-> None, max_capacity |-> None,
     start_capacity |-> None, end_capacity |-> None, number_of_points |-> None,
     fixed_voltage_range |-> None,
     errors |-> <<>>]

points_pr_split == 10

minimum_splits == 3

\* the outcome of a method of the Converter: the object as the method leaves
\* it and the exception it raised
Outcome(c, raised) == [converter |-> c, raised |-> raised]

\* set_data(capacity, voltage) with two series
SetData(c, capacity, voltage) ==
    IF Len(capacity) # Len(voltage) THEN Outcome(c, "AssertionError")
    ELSE Outcome([c EXCEPT !.capacity = Some(capacity), !.voltage = Some(voltage)], "none")

\* np.diff
Diff(x) == [i \in 1..(Len(x) - 1) |-> RSub(x[i + 1], x[i])]

\* the warnings inspect_data appends to self.errors, in its order
InspectErrors(capacity) ==
    (IF Len(capacity) \div points_pr_split < minimum_splits
     THEN <<"splitting: to few points">> ELSE <<>>)
    \o (IF capacity[1] # SeqMin(capacity) THEN <<"capacity: start<>min">> ELSE <<>>)
    \o (IF capacity[Len(capacity)] # SeqMax(capacity)
        THEN <<"capacity: end<>max">> ELSE <<>>)

\* variant: only a series without any sample is refused
InspectDataEmptyOnly(c) ==
    IF c.capacity = None \/ c.voltage = None THEN Outcome(c, "NullData")
    ELSE IF Len(c.capacity[1]) < 1 \/ Len(c.voltage[1]) < 1
    THEN Outcome([c EXCEPT !.len_capacity = Some(Len(c.capacity[1])),
                           !.len_voltage = Some(Len(c.voltage[1]))],
                 "NullData")
    ELSE Outcome([c EXCEPT !.len_capacity = Some(Len(c.capacity[1])),
                           !.len_voltage = Some(Len(c.voltage[1])),
                           !.number_of_points = Some(Len(c.capacity[1])),
                           !.normalising_factor = Some(c.capacity[1][Len(c.capacity[1])])],
                 "none")

\* inspect_data(): the lengths are stored before they are tested
InspectData(c) ==
    IF c.capacity = None \/ c.voltage = None THEN Outcome(c, "NullData")
    ELSE IF Len(c.capacity[1]) <= 1 \/ Len(c.voltage[1]) <= 1
    THEN Outcome([c EXCEPT !.len_capacity = Some(Len(c.capacity[1])),
                           !.len_voltage = Some(Len(c.voltage[1]))],
                 "NullData")
    ELSE Outcome([c EXCEPT !.len_capacity = Some(Len(c.capacity[1])),
                           !.len_voltage = Some(Len(c.voltage[1])),
                           !.d_capacity_mean = Some(Mean(Diff(c.capacity[1]))),
                           !.d_voltage_mean = Some(Mean(Diff(c.voltage[1]))),
                           !.min_capacity = Some(SeqMin(c.capacity[1])),
                           !.max_capacity = Some(SeqMax(c.capacity[1])),
                           !.start_capacity = Some(c.capacity[1][1]),
                           !.end_capacity = Some(c.capacity[1][Len(c.capacity[1])]),
                           !.number_of_points = Some(Len(c.capacity[1])),
                           !.errors = @ \o InspectErrors(c.capacity[1]),
                           !.normalising_factor = Some(c.capacity[1][Len(c.capacity[1])])],
                 "none")

----------------------------------------------------------------------------
(* ica.Converter: pre_process_data, increment_data and post_process_data *)

\* "if self.pre_smoothing:"; the filter raises after the two attributes have
\* been assigned
PreProcessSmoothed(c, capacity_preprocessed, voltage_preprocessed) ==
    IF ~c.pre_smoothing
    THEN Outcome([c EXCEPT !.capacity_preprocessed = Some(capacity_preprocessed),
                           !.voltage_preprocessed = Some(voltage_preprocessed)],
                 "none")
    ELSE IF SavgolRaised(voltage_preprocessed) # "none"
    THEN Outcome([c EXCEPT !.capacity_preprocessed = Some(capacity_preprocessed),
                           !.voltage_preprocessed = Some(voltage_preprocessed)],
                 SavgolRaised(voltage_preprocessed))
    ELSE Outcome([c EXCEPT !.capacity_preprocessed = Some(capacity_preprocessed),
                           !.voltage_preprocessed = Some(SavgolFilter(voltage_preprocessed))],
                 "none")

PreProcessInterpolated(c, capacity_preprocessed) ==
    IF InterpolateRaised(c.capacity[1], c.voltage[1], capacity_preprocessed) # "none"
    THEN Outcome([c EXCEPT !.capacity_preprocessed = Some(capacity_preprocessed)],
                 "ValueError")
    ELSE PreProcessSmoothed(c, capacity_preprocessed,
                            Interpolate(c.capacity[1], c.voltage[1], capacity_preprocessed))

\* pre_process_data() of a Converter that holds no series or one of two samples
\* or more: interp1d of None raises, and so does np.linspace with the length
\* None of a Converter that was not inspected
PreProcessData(c) ==
    IF c.capacity = None THEN Outcome(c, "ValueError")
    ELSE IF c.len_capacity = None THEN Outcome(c, "TypeError")
    ELSE PreProcessInterpolated(c,
            Linspace(c.capacity[1][1], c.capacity[1][Len(c.capacity[1])], c.len_capacity[1]))

\* np.ediff1d(capacity_inverted) / voltage_inverted_step, and the voltage of
\* each difference: voltage_inverted[1:] + 0.5 * voltage_inverted_step
IncrementDiff(c, capacity_inverted) ==
    Outcome([c EXCEPT !.capacity_inverted = Some(capacity_inverted),
                      !.incremental_capacity =
                          Some([i \in 1..(Len(capacity_inverted) - 1) |->
                                   RDiv(Diff(capacity_inverted)[i],
                                        c.voltage_inverted_step[1])]),
                      !.voltage_processed =
                          Some([i \in 1..(Len(c.voltage_inverted[1]) - 1) |->
                                   RAdd(c.voltage_inverted[1][i + 1],
                                        RMul(Rat(1, 2), c.voltage_inverted_step[1]))])],
            "none")

\* "if self.smoothing:"; the filter raises after capacity_inverted was assigned
IncrementSmoothed(c, capacity_inverted) ==
    IF ~c.smoothing THEN IncrementDiff(c, capacity_inverted)
    ELSE IF SavgolRaised(capacity_inverted) # "none"
    THEN Outcome([c EXCEPT !.capacity_inverted = Some(capacity_inverted)],
                 SavgolRaised(capacity_inverted))
    ELSE IncrementDiff(c, SavgolFilter(capacity_inverted))

IncrementInverted(c, v1, v2, len_voltage) ==
    IncrementSmoothed(
        [c EXCEPT !.voltage_inverted = Some(Linspace(v1, v2, len_voltage)),
                  !.voltage_inverted_step = Some(RDiv(RSub(v2, v1), Num(len_voltage - 1)))],
        Interpolate(c.voltage_preprocessed[1], c.capacity_preprocessed[1],
                    Linspace(v1, v2, len_voltage)))

\* increment_data(): len(None) raises TypeError
IncrementData(c) ==
    IF c.voltage_preprocessed = None THEN Outcome(c, "TypeError")
    ELSE IncrementInverted(c, SeqMin(c.voltage_preprocessed[1]),
                           SeqMax(c.voltage_preprocessed[1]), Len(c.voltage_preprocessed[1]))

voltage_fwhm == Rat(1, 100)

\* sigma = np.amax([2, points_fwhm / 2]) with points_fwhm = int(voltage_fwhm / voltage_step)
Sigma(voltage_step) == RMax(Num(2), Rat(Trunc(RDiv(voltage_fwhm, voltage_step)), 2))

\* "if self.post_smoothing:"; int() of a division by None, of inf and of NaN raises
PostSmoothingRaised(c) ==
    IF c.voltage_inverted_step = None THEN "TypeError"
    ELSE IF IsNaN(RDiv(voltage_fwhm, c.voltage_inverted_step[1])) THEN "ValueError"
    ELSE IF ~IsFinite(RDiv(voltage_fwhm, c.voltage_inverted_step[1])) THEN "OverflowError"
    ELSE IF c.incremental_capacity = None THEN "ValueError"
    ELSE "none"

PostSmoothed(c) ==
    IF ~c.post_smoothing THEN Outcome(c, "none")
    ELSE IF PostSmoothingRaised(c) # "none" THEN Outcome(c, PostSmoothingRaised(c))
    ELSE Outcome([c EXCEPT !.incremental_capacity =
                               Some(GaussianFilter(c.incremental_capacity[1],
                                                   Sigma(c.voltage_inverted_step[1])))],
                 "none")

\* variant: the area is taken with its sign
ScaledBySignedArea(incremental_capacity, normalising_factor, area) ==
    [i \in 1..Len(incremental_capacity) |->
        RDiv(RMul(incremental_capacity[i], normalising_factor), area)]

\* incremental_capacity * self.normalising_factor / abs(area)
Scaled(incremental_capacity, normalising_factor, area) ==
    [i \in 1..Len(incremental_capacity) |->
        RDiv(RMul(incremental_capacity[i], normalising_factor), RAbs(area))]

\* "if self.normalise:" works on the local names voltage and
\* incremental_capacity, bound before the smoothing to the attributes
PostNormalised(o, voltage, incremental_capacity) ==
    IF o.raised # "none" \/ ~o.converter.normalise THEN o
    ELSE IF incremental_capacity = None THEN Outcome(o.converter, "IndexError")
    ELSE IF o.converter.normalising_factor = None THEN Outcome(o.converter, "TypeError")
    ELSE Outcome([o.converter EXCEPT !.incremental_capacity =
                                         Some(Scaled(incremental_capacity[1],
                                                     o.converter.normalising_factor[1],
                                                     Simps(incremental_capacity[1], voltage[1])))],
                 "none")

\* the interpolation of a filtered series is carried as such
Resampled(voltage_processed, incremental_capacity, v) ==
    IF IsSeries(incremental_capacity)
    THEN InterpolateOn(SortedPoints(voltage_processed, incremental_capacity), v)
    ELSE [i \in 1..Len(v) |->
             [interp1d |-> incremental_capacity, x |-> voltage_processed, x_new |-> v[i]]]

\* "if fixed_range:": v1, v2, number_of_points = self.fixed_voltage_range
PostFixedRange(o) ==
    IF o.raised # "none" \/ o.converter.fixed_voltage_range = None THEN o
    ELSE IF o.converter.incremental_capacity = None THEN Outcome(o.converter, "ValueError")
    ELSE Outcome([o.converter EXCEPT
                     !.incremental_capacity =
                         Some(Resampled(o.converter.voltage_processed[1], @[1],
                                        Linspace(o.converter.fixed_voltage_range[1][1],
                                                 o.converter.fixed_voltage_range[1][2],
                                                 o.converter.fixed_voltage_range[1][3]))),
                     !.voltage_processed =
                         Some(Linspace(o.converter.fixed_voltage_range[1][1],
                                       o.converter.fixed_voltage_range[1][2],
                                       o.converter.fixed_voltage_range[1][3]))],
                 "none")

\* post_process_data() without arguments
PostProcessData(c) ==
    PostFixedRange(PostNormalised(PostSmoothed(c), c.voltage_processed, c.incremental_capacity))

----------------------------------------------------------------------------
(* ica.dqdv_cycle and ica.dqdv_cycles *)

\* the next method of the Converter, not reached when one before it raised
Then(o, Method(_)) == IF o.raised # "none" THEN o ELSE Method(o.converter)

\* converter = Converter(); set_data; inspect_data; pre_process_data;
\* increment_data; post_process_data
Convert(capacity, voltage) ==
    Then(Then(Then(Then(SetData(NewConverter, capacity, voltage), InspectData),
                   PreProcessData),
              IncrementData),
         PostProcessData)

\* cycle.loc[cycle["direction"] == direction]
OfDirection(cycle, direction) ==
    LET Is(row) == row.direction = direction IN SelectSeq(cycle, Is)

ConvertDirection(cycle, direction) ==
    Convert(Col(OfDirection(cycle, direction), "capacity"),
            Col(OfDirection(cycle, direction), "voltage"))

\* x[::-1]
Reversed(x) == [i \in 1..Len(x) |-> x[Len(x) + 1 - i]]

\* np.append(x, np.NaN) "if splitter"
Split(x, splitter) == IF splitter THEN Append(x, NaN) ELSE x

\* variant: the last segment is not turned round
DqdvCycleConcatenatedUnreversed(first, last, splitter) ==
    [raised |-> "none",
     voltage |-> Split(first.voltage_processed[1], splitter) \o last.voltage_processed[1],
     incremental_capacity |->
        Split(first.incremental_capacity[1], splitter) \o last.incremental_capacity[1]]

\* np.concatenate of the first segment, split, and the last segment reversed
DqdvCycleConcatenated(first, last, splitter) ==
    [raised |-> "none",
     voltage |-> Split(first.voltage_processed[1], splitter)
                    \o Reversed(last.voltage_processed[1]),
     incremental_capacity |->
        Split(first.incremental_capacity[1], splitter)
            \o Reversed(last.incremental_capacity[1])]

DqdvCycleOf(first, last, splitter) ==
    IF first.raised # "none"
    THEN [raised |-> first.raised, voltage |-> None, incremental_capacity |-> None]
    ELSE IF last.raised # "none"
    THEN [raised |-> last.raised, voltage |-> None, incremental_capacity |-> None]
    ELSE DqdvCycleConcatenated(first.converter, last.converter, splitter)

\* dqdv_cycle(cycle, splitter): c_first has direction -1, c_last direction 1
DqdvCycle(cycle, splitter) ==
    DqdvCycleOf(ConvertDirection(cycle, -1), ConvertDirection(cycle, 1), splitter)

\* _ica_df: the columns cycle, voltage and dq of one cycle
IcaFrame(cycle_number, v, dq) ==
    [i \in 1..Len(v) |-> [cycle |-> cycle_number, voltage |-> v[i], dq |-> dq[i]]]

\* cycles.groupby("cycle"): the rows of one cycle
Group(cycles, cycle_number) ==
    LET Is(row) == row.cycle = cycle_number IN SelectSeq(cycles, Is)

\* the loop of dqdv_cycles over the groups: an exception of dqdv_cycle ends it
RECURSIVE IcaFrames(_, _)
IcaFramesAfter(one, cycles, numbers) ==
    IF one.raised # "none" THEN [raised |-> one.raised, value |-> None]
    ELSE IF IcaFrames(cycles, Tail(numbers)).raised # "none"
    THEN IcaFrames(cycles, Tail(numbers))
    ELSE [raised |-> "none",
          value |-> IcaFrame(numbers[1], one.voltage, one.incremental_capacity)
                        \o IcaFrames(cycles, Tail(numbers)).value]

IcaFrames(cycles, numbers) ==
    IF Len(numbers) = 0 THEN [raised |-> "none", value |-> <<>>]
    ELSE IcaFramesAfter(DqdvCycle(Group(cycles, numbers[1]), TRUE), cycles, numbers)

\* dqdv_cycles(cycles): the groups in ascending order of the cycle number;
\* pd.concat of no frame raises ValueError
DqdvCycles(cycles) ==
    IF Len(cycles) = 0 THEN [raised |-> "ValueError", value |-> None]
    ELSE IcaFrames(cycles, SortedSeq({cycles[i].cycle : i \in 1..Len(cycles)}))

----------------------------------------------------------------------------
(* ica._constrained_dq_dv_using_dataframes and ica._make_ica_charge_curves *)

\* converter.fixed_voltage_range = [minimum_v, maximum_v, 100], set after
\* increment_data, and post_process_data
PostProcessFixed(o, minimum_v, maximum_v) ==
    IF o.raised # "none" THEN o
    ELSE PostProcessData([o.converter EXCEPT
                             !.fixed_voltage_range = Some(<<minimum_v, maximum_v, 100>>)])

\* _constrained_dq_dv_using_dataframes(capacity, minimum_v, maximum_v) with a
\* frame of the columns q and v
ConstrainedDqDv(capacity, minimum_v, maximum_v) ==
    PostProcessFixed(
        Then(Then(Then(SetData(NewConverter, Col(capacity, "q"), Col(capacity, "v")),
                       InspectData),
                  PreProcessData),
             IncrementData),
        minimum_v, maximum_v)

\* the list after one more frame: the first frame converted also gives the
\* frame named "voltage"
WithCurve(list, n, c) ==
    [raised |-> "none",
     voltage |-> IF list.voltage = None THEN Some(c.voltage_processed[1])
                 ELSE list.voltage,
     dq |-> Append(list.dq, [name |-> n, dq |-> c.incremental_capacity[1]])]

\* one round of the loop of _make_ica_charge_curves: "if not c.empty", else
\* the print of "<n> is empty"
AfterCurve(list, c, n, minimum_v, maximum_v) ==
    IF list.raised # "none" \/ Len(c) = 0 THEN list
    ELSE IF ConstrainedDqDv(c, minimum_v, maximum_v).raised # "none"
    THEN [list EXCEPT !.raised = ConstrainedDqDv(c, minimum_v, maximum_v).raised]
    ELSE WithCurve(list, n, ConstrainedDqDv(c, minimum_v, maximum_v).converter)

\* _make_ica_charge_curves(cycles_dfs, cycle_numbers, minimum_v, maximum_v)
RECURSIVE MakeIcaChargeCurves(_, _, _, _)
MakeIcaChargeCurves(cycles_dfs, cycle_numbers, minimum_v, maximum_v) ==
    IF Len(cycles_dfs) = 0 \/ Len(cycle_numbers) = 0
    THEN [raised |-> "none", voltage |-> None, dq |-> <<>>]
    ELSE AfterCurve(MakeIcaChargeCurves(SubSeq(cycles_dfs, 1, Len(cycles_dfs) - 1),
                                        SubSeq(cycle_numbers, 1, Len(cycles_dfs) - 1),
                                        minimum_v, maximum_v),
                    cycles_dfs[Len(cycles_dfs)], cycle_numbers[Len(cycles_dfs)],
                    minimum_v, maximum_v)

----------------------------------------------------------------------------
(* cellpydata.merge and cellpydata._append *)

\* the cycle indices a frame holds
CyclesPresent(df) == SeqToSet(CycleOf(df))

\* a column of a frame with a number added to every cell
Shifted(df, h, by) == [i \in 1..Len(df) |-> [df[i] EXCEPT ![h] = @ + by]]

\* t2.dfdata as _append leaves it, in place: data points and cycle indices
\* continue those of t1 (the test time, shifted as well, is not carried)
AppendedData(t1, t2) ==
    Shifted(Shifted(t2.dfdata, "Data_Point", IntMax(SeqToSet(PointOf(t1.dfdata)))),
            "Cycle_Index", IntMax(SeqToSet(CycleOf(t1.dfdata))))

\* t2.dfsummary as _append leaves it, in place: both frames have the column
\* Cycle_Index (the statistics of the loader or the summary made from them),
\* so the branch "self_made_summary" is the one taken
AppendedSummary(t1, t2) ==
    Shifted(t2.dfsummary, "Cycle_Index", IntMax(SeqToSet(CycleOf(t1.dfsummary))))

\* max() of an empty column; t2.dfdata[self.step_table_txt_cycle], the column
\* "cycle" of a time series that has none, read when both step tables are made
AppendRaised(t1, t2) ==
    IF Len(t1.dfdata) = 0 \/ Len(t1.dfsummary) = 0 THEN "ValueError"
    ELSE IF t1.step_table_made /\ t2.step_table_made THEN "KeyError"
    ELSE "none"

\* the second dataset after _append(t1, t2), modified in place up to the
\* statement that raised
AppendSecond(t1, t2) ==
    IF Len(t1.dfdata) = 0 THEN t2
    ELSE IF Len(t1.dfsummary) = 0 THEN [t2 EXCEPT !.dfdata = AppendedData(t1, t2)]
    ELSE [t2 EXCEPT !.dfdata = AppendedData(t1, t2),
                    !.dfsummary = AppendedSummary(t1, t2)]

\* the first dataset after _append(t1, t2): "test = t1" is the same object;
\* the locals dfsummary_made and step_table_made are computed and dropped
AppendFirst(t1, t2) ==
    IF Len(t1.dfdata) = 0 \/ Len(t1.dfsummary) = 0 THEN t1
    ELSE IF AppendRaised(t1, t2) # "none"
    THEN [t1 EXCEPT !.dfsummary = t1.dfsummary \o AppendedSummary(t1, t2)]
    ELSE [t1 EXCEPT !.dfsummary = t1.dfsummary \o AppendedSummary(t1, t2),
                    !.dfdata = t1.dfdata \o AppendedData(t1, t2)]

\* the loop of merge(tests=None) from the k-th test on, the first test being
\* the one appended to; "self.tests = [test]" when the loop ends
RECURSIVE MergeFrom(_, _)
MergeFrom(list, k) ==
    IF k > Len(list) THEN [tests |-> <<list[1]>>, raised |-> "none"]
    ELSE IF AppendRaised(list[1], list[k]) # "none"
    THEN [tests |-> [list EXCEPT ![1] = AppendFirst(list[1], list[k]),
                                 ![k] = AppendSecond(list[1], list[k])],
          raised |-> AppendRaised(list[1], list[k])]
    ELSE MergeFrom([list EXCEPT ![1] = AppendFirst(list[1], list[k]),
                                ![k] = AppendSecond(list[1], list[k])],
                   k + 1)

----------------------------------------------------------------------------
(* batch_experiments.CyclingExperiment *)

\* BaseExperiment.__init__ and CyclingExperiment.__init__; a dict is held as
\* the set of its keys, except errors, a function from its keys to lists
NewExperiment ==
    [summary_frames |-> None, step_table_frames |-> None, cell_data_frames |-> None,
     force_cellpy |-> FALSE, force_raw |-> FALSE, save_cellpy |-> TRUE,
     accept_errors |-> TRUE, all_in_memory |-> FALSE,
     export_cycles |-> FALSE, shifted_cycles |-> FALSE, export_raw |-> TRUE,
     export_ica |-> FALSE, errors |-> <<>>]

\* the locals of update() when it starts on the pages
NewRun ==
    [errors |-> <<>>, summary_frames |-> {}, step_table_frames |-> {},
     cell_data_frames |-> {}, raised |-> "none"]

\* an entry of the list errors: the stage that failed and the index of the
\* row, for the strings "loadcell:" + str(indx) and the like; the entry of a
\* row without raw files is the bare index
ErrorEntry(stage, indx) == [stage |-> stage, indx |-> indx]

\* errors.append(...) and continue
Skipped(run, stage, indx) == [run EXCEPT !.errors = Append(@, ErrorEntry(stage, indx))]

\* an exception that leaves update()
Propagated(run, exception) == [run EXCEPT !.raised = exception]

\* the loader of the row failed: cell_data.loadcell or, with force_cellpy,
\* cell_data.load, each in a try that records the failure and, unless
\* accept_errors, raises Exception(e)
LoaderOf(e) == IF e.force_cellpy THEN "load" ELSE "loadcell"

LoadFailed(e, run, indx) ==
    IF e.accept_errors THEN Skipped(run, LoaderOf(e), indx)
    ELSE Propagated(Skipped(run, LoaderOf(e), indx), "Exception")

\* the export of dq-dv curves, the last statement of the loop body: in a try
\* that records the failure
AfterExportIca(e, run, indx, row) ==
    IF e.export_ica /\ row.raises = "export_dqdv" THEN Skipped(run, "ica", indx)
    ELSE run

\* cell_data.save unless the row is fixed, then cell_data.to_csv: neither is
\* in a try
AfterSaveAndExport(e, run, indx, row) ==
    IF e.save_cellpy /\ ~row.fixed /\ row.raises = "save" THEN Propagated(run, "Exception")
    ELSE IF (e.export_raw \/ e.export_cycles) /\ row.raises = "to_csv"
    THEN Propagated(run, "Exception")
    ELSE AfterExportIca(e, run, indx, row)

\* the frames of the row are kept: step_table_frames[indx], summary_frames[indx]
WithFrames(run, indx) ==
    [run EXCEPT !.step_table_frames = @ \cup {indx}, !.summary_frames = @ \cup {indx}]

\* "summary_tmp.index.name" on the summary read before make_summary ran: None
\* has no attribute index; set_index("Cycle_Index") outside any try
AfterIndexName(e, run, indx, row) ==
    IF row.summary_is_none THEN Propagated(run, "AttributeError")
    ELSE IF row.raises = "set_index" THEN Propagated(run, "KeyError")
    ELSE AfterSaveAndExport(e, WithFrames(run, indx), indx, row)

\* "if self.all_in_memory: cell_data_frames[indx] = cell_data"
InMemory(e, run, indx) ==
    IF e.all_in_memory THEN [run EXCEPT !.cell_data_frames = @ \cup {indx}] ELSE run

\* make_step_table and make_summary for the tables that are None, outside
\* any try
AfterTables(e, run, indx, row) ==
    IF row.step_table_is_none /\ row.raises = "make_step_table"
    THEN Propagated(run, "Exception")
    ELSE IF row.summary_is_none /\ row.raises = "make_summary"
    THEN Propagated(run, "Exception")
    ELSE AfterIndexName(e, InMemory(e, run, indx), indx, row)

\* one round of the loop of update(): the row of the journal with index indx
UpdateRow(e, run, indx, row) ==
    IF run.raised # "none" THEN run
    ELSE IF ~row.raw_file_names /\ ~e.force_cellpy THEN Skipped(run, "", indx)
    ELSE IF ~e.force_cellpy /\ row.raises = "set_cycle_mode" THEN Propagated(run, "Exception")
    ELSE IF row.raises = LoaderOf(e) THEN LoadFailed(e, run, indx)
    ELSE IF row.raises = "check" THEN Propagated(run, "Exception")
    ELSE IF ~row.check THEN Skipped(run, "check", indx)
    ELSE AfterTables(e, run, indx, row)

\* the loop of update() over the first n rows of the pages
RECURSIVE UpdateRows(_, _, _)
UpdateRows(e, pages, n) ==
    IF n = 0 THEN NewRun
    ELSE UpdateRow(e, UpdateRows(e, pages, n - 1), n, pages[n])

\* the experiment after update(): the four assignments after the loop, not
\* reached when an exception left the loop
Updated(e, run) ==
    IF run.raised # "none" THEN e
    ELSE [e EXCEPT !.errors = [k \in (DOMAIN e.errors) \cup {"update"} |->
                                  IF k = "update" THEN run.errors ELSE e.errors[k]],
                   !.summary_frames = Some(run.summary_frames),
                   !.step_table_frames = Some(run.step_table_frames),
                   !.cell_data_frames = IF e.all_in_memory THEN Some(run.cell_data_frames)
                                        ELSE e.cell_data_frames]

----------------------------------------------------------------------------
(* batch_core.Doer *)

\* "empty_farm = []": the one list made when the module is loaded. A list is
\* known by its identity; the lists made later are numbered from 1
empty_farm == 0

NotAnExperiment == "not an instance of BaseExperiment"

\* Doer._validate_base_experiment_type
ValidateRaised(args) ==
    IF \E i \in 1..Len(args) : args[i] = NotAnExperiment THEN "TypeError" ELSE "none"

\* Doer.__init__(*args): "if args:" appends the module's list once, whatever
\* the number of experiments
DoerInit(args) ==
    [experiments |-> args,
     farms |-> IF Len(args) = 0 THEN <<>> ELSE <<empty_farm>>,
     barn |-> None]

\* Doer.assign
assign(doer, experiment_) ==
    [doer EXCEPT !.experiments = Append(@, experiment_),
                 !.farms = Append(@, empty_farm)]

\* the lists that some farm of some Doer refers to
ListsInUse(ds) == UNION {{ds[k].farms[i] : i \in 1..Len(ds[k].farms)} : k \in 1..Len(ds)}

\* the i-th list identity that is free while those of inuse are alive
FreshList(inuse, i) ==
    CHOOSE x \in (1..(Cardinality(inuse) + i)) \ inuse :
        Cardinality({y \in (1..(Cardinality(inuse) + i)) \ inuse : y < x}) = i - 1

\* Doer.empty_the_farms: "self.farms = [[] for _ in self.farms]", the new
\* lists being made while the old ones are still referred to
empty_the_farms(ds, k) ==
    [ds[k] EXCEPT !.farms = [i \in 1..Len(@) |-> FreshList(ListsInUse(ds), i)]]

----------------------------------------------------------------------------
(* Inputs *)

\* rows per time series
MaxRows == 3

\* cycle indices a tester writes
MaxCycle == 2

\* warnings in Converter.errors beyond which inspect_data is not called again
MaxErrors == 3

\* step indices of a schedule
StepIndices == {1, 2}

\* the measured part of a sample: current, voltage, charge and discharge capacity
Measurements == {<<-1, 100, 0, 2>>, <<1, 103, 2, 3>>}

\* time series of a test: cycle and step indices in any order, data points
\* numbered in the order logged
Series ==
    UNION {[1..n -> (1..MaxCycle) \X StepIndices \X Measurements] : n \in 0..MaxRows}

SeriesFrame(series) ==
    [i \in 1..Len(series) |->
        Sample(series[i][1], series[i][2], i, i, series[i][3][1], series[i][3][2],
               series[i][3][3], series[i][3][4], 1)]

\* time series of a test that keeps one step per cycle
CycleSeries ==
    UNION {[1..n -> (1..MaxCycle) \X {1} \X Measurements] : n \in 0..MaxRows}

\* the samples of one step
StepSamples(cycle, step, time, current, voltage, charge, discharge) ==
    {Sample(cycle, step, 0, time, i, v, c, d, 1) :
        i \in current, v \in voltage, c \in charge, d \in discharge}

Numbered(df) ==
    [i \in 1..Len(df) |-> [df[i] EXCEPT !.Data_Point = i]]

\* one step, given by its first and, when it has two rows, last sample
StepFrames ==
    LET first == StepSamples(1, 1, 0, {-1, 0, 1}, {100}, {0, 2}, {0, 2})
        last == StepSamples(1, 1, 5, {-1, 0, 1}, {97, 100, 101, 103}, {0, 2, 3}, {0, 2, 3})
    IN  {<<a>> : a \in first} \cup {<<a, b>> : a \in first, b \in last}

\* a cycle of a constant-current step followed by a step without current
TwoStepFrames ==
    LET a1 == StepSamples(1, 1, 0, {-1}, {100}, {0, 2}, {2})
        a2 == StepSamples(1, 1, 5, {-1}, {97, 100, 101, 103}, {0, 2, 3}, {3})
        b1 == StepSamples(1, 2, 0, {0}, {100}, {0}, {0})
        b2 == StepSamples(1, 2, 5, {0}, {103}, {0, 2}, {0, 2})
    IN  {<<w, x, y, z>> : w \in a1, x \in a2, y \in b1, z \in b2}

\* a schedule as the tester runs it: the cycle and the kind of every step, the
\* step index being the position in the schedule
Kinds == {"discharge", "charge", "rest"}

PlanCycles == {1, 2}

PlanLengths == {1, 2}

Plans == UNION {[1..n -> PlanCycles \X Kinds] : n \in PlanLengths}

\* the two samples logged for a step: a discharge at -1 A, a charge at 1 A, a
\* relaxation at no current with rising voltage
StepOfKind(cycle, step, kind) ==
    CASE kind = "discharge" ->
            <<Sample(cycle, step, 0, 0, -1, 100, 0, 2, step),
              Sample(cycle, step, 0, 5, -1, 97 - step, 0, 3, step + 10)>>
      [] kind = "charge" ->
            <<Sample(cycle, step, 0, 0, 1, 100, 2, 2, step),
              Sample(cycle, step, 0, 5, 1, 103 + step, 3, 2, step + 10)>>
      [] kind = "rest" ->
            <<Sample(cycle, step, 0, 0, 0, 100, 0, 0, step),
              Sample(cycle, step, 0, 5, 0, 103 + step, 0, 0, step + 10)>>

PlanFrame(plan) ==
    [i \in 1..(2 * Len(plan)) |->
        StepOfKind(plan[(i + 1) \div 2][1], (i + 1) \div 2,
                   plan[(i + 1) \div 2][2])[2 - (i % 2)]]

\* the optional extractions asked for: find_ocv, find_ir, find_end_voltage
Requests ==
    {<<FALSE, FALSE, FALSE>>, <<TRUE, FALSE, FALSE>>, <<FALSE, TRUE, FALSE>>,
     <<FALSE, FALSE, TRUE>>, <<TRUE, TRUE, TRUE>>}

Masses == {None, <<0>>, <<-5>>, <<2>>}

\* capacity and voltage series handed to a Converter: none, one, two, five and
\* six samples, the capacity rising or falling, the voltage rising (a charge)
\* or falling (a discharge), evenly or not
CapacitySeries ==
    {<<>>, <<1>>, <<0, 1>>, <<0, 1, 2, 3, 4>>, <<4, 3, 2, 1, 0>>, <<0, 1, 2, 3, 4, 5>>}

VoltageSeries ==
    {<<>>, <<2>>, <<30, 31>>, <<30, 31, 32, 33, 34>>, <<34, 33, 32, 31, 30>>,
     <<30, 31, 33, 36, 40>>, <<40, 36, 33, 31, 30>>, <<30, 31, 33, 36, 40, 45>>,
     <<45, 40, 36, 33, 31, 30>>}

Nums(s) == [i \in 1..Len(s) |-> Num(s[i])]

\* the number of rows of the pages of a journal
MaxPages == 2

\* a row of the pages as update() meets it: whether it names raw files,
\* whether it is fixed, what check() returns, whether the loaded cell lacks a
\* step table or a summary, and the call, if any, that raises when reached
GoodRow ==
    [raw_file_names |-> TRUE, fixed |-> FALSE, check |-> TRUE,
     step_table_is_none |-> FALSE, summary_is_none |-> FALSE, raises |-> "none"]

Calls ==
    {"set_cycle_mode", "loadcell", "load", "check", "make_step_table", "make_summary",
     "set_index", "save", "to_csv", "export_dqdv"}

JournalRows ==
    {GoodRow, [GoodRow EXCEPT !.raw_file_names = FALSE], [GoodRow EXCEPT !.fixed = TRUE],
     [GoodRow EXCEPT !.check = FALSE], [GoodRow EXCEPT !.step_table_is_none = TRUE],
     [GoodRow EXCEPT !.summary_is_none = TRUE],
     [GoodRow EXCEPT !.step_table_is_none = TRUE, !.raises = "make_step_table"],
     [GoodRow EXCEPT !.summary_is_none = TRUE, !.raises = "make_summary"]}
    \cup {[GoodRow EXCEPT !.raises = call] : call \in Calls}

Pages == UNION {[1..n -> JournalRows] : n \in 0..MaxPages}

\* the attributes a caller sets on the experiment before update(): force_cellpy,
\* accept_errors, save_cellpy, export_raw, export_ica, all_in_memory
ExperimentAttributes ==
    {<<FALSE, TRUE, TRUE, TRUE, FALSE, FALSE>>, <<FALSE, FALSE, TRUE, TRUE, FALSE, FALSE>>,
     <<TRUE, TRUE, TRUE, TRUE, TRUE, FALSE>>, <<FALSE, TRUE, FALSE, FALSE, TRUE, TRUE>>,
     <<TRUE, FALSE, FALSE, TRUE, FALSE, TRUE>>}

\* the number of files loaded into one cellpydata object
MaxTests == 2

\* the number of samples held by one cellpydata object
MaxSamples == 4

RECURSIVE SamplesLoaded(_)
SamplesLoaded(list) ==
    IF Len(list) = 0 THEN 0 ELSE Len(list[1].dfdata) + SamplesLoaded(Tail(list))

\* the time series of the files that are merged: one step, two steps of one
\* cycle, two cycles
MergeFrames ==
    {<<Sample(1, 1, 1, 0, -1, 100, 0, 2, 1)>>,
     <<Sample(1, 1, 1, 0, -1, 100, 0, 2, 1), Sample(1, 2, 2, 0, 1, 103, 2, 3, 1)>>,
     <<Sample(1, 1, 1, 0, -1, 100, 0, 2, 1), Sample(2, 1, 2, 0, 1, 103, 2, 3, 1)>>}

\* the two segments of a cycle, each a capacity and a voltage series: none,
\* two samples, five or six samples
FirstSegments ==
    {<<(<<>>), <<>>>>, <<(<<0, 1>>), <<31, 30>>>>,
     <<(<<0, 1, 2, 3, 4>>), <<34, 33, 32, 31, 30>>>>,
     <<(<<0, 1, 2, 3, 4>>), <<40, 36, 33, 31, 30>>>>}

LastSegments ==
    {<<(<<>>), <<>>>>, <<(<<0, 1>>), <<30, 31>>>>,
     <<(<<0, 1, 2, 3, 4>>), <<30, 31, 32, 33, 34>>>>,
     <<(<<0, 1, 2, 3, 4, 5>>), <<30, 31, 33, 36, 40, 45>>>>}

\* the rows of a segment in the frame of get_cap(categorical_column=True,
\* label_cycle_number=True)
SegmentRows(cycle_number, direction, segment) ==
    [i \in 1..Len(segment[1]) |->
        [cycle |-> cycle_number, direction |-> direction,
         capacity |-> segment[1][i], voltage |-> segment[2][i]]]

\* the frame of one capacity curve, columns q and v
CurveFrame(segment) ==
    [i \in 1..Len(segment[1]) |-> [q |-> segment[1][i], v |-> segment[2][i]]]

CycleRows(cycle_number, first, last) ==
    SegmentRows(cycle_number, -1, first) \o SegmentRows(cycle_number, 1, last)

\* the attributes a caller sets on a new Converter: pre_smoothing, smoothing,
\* post_smoothing, normalise and fixed_voltage_range
Configurations ==
    {<<FALSE, FALSE, TRUE, TRUE, None>>, <<TRUE, TRUE, FALSE, TRUE, None>>,
     <<TRUE, TRUE, TRUE, FALSE, None>>, <<FALSE, FALSE, FALSE, FALSE, None>>,
     <<TRUE, TRUE, TRUE, TRUE, Some(<<Num(31), Num(33), 3>>)>>}

Values == {Num(0), Num(5), Num(-2), Num(3), Rat(1, 2), NaN}

\* the Doers made and the experiments of one Doer, at most
MaxDoers == 2

MaxExperiments == 2

ExperimentNames == {"experiment_1", "experiment_2"}

\* Doer(), Doer(a), Doer(a, b), with an argument that is no experiment among them
DoerArgs ==
    {<<>>} \cup {<<a>> : a \in ExperimentNames \cup {NotAnExperiment}}
           \cup {<<a, b>> : a \in ExperimentNames, b \in ExperimentNames \cup {NotAnExperiment}}

----------------------------------------------------------------------------
(* Operations *)

\* a loader puts one dataset into the empty list of tests
LoadFrame(dfdata) ==
    /\ UNCHANGED <<converter, experiment, doers>>
    /\ tests' = <<NewDataset(dfdata)>>
    /\ ret' = Returned("load", None, None)

Load ==
    /\ Len(tests) = 0
    /\ \E series \in Series : LoadFrame(SeriesFrame(series))

LoadCycles ==
    /\ Len(tests) = 0
    /\ \E series \in CycleSeries : LoadFrame(SeriesFrame(series))

LoadStep ==
    /\ Len(tests) = 0
    /\ \E df \in StepFrames \cup TwoStepFrames : LoadFrame(Numbered(df))

\* a test that ran a schedule of discharge, charge and relaxation steps
LoadPlan ==
    /\ Len(tests) = 0
    /\ \E plan \in Plans : LoadFrame(Numbered(PlanFrame(plan)))

\* create_step_table(): test_number None selects the first test
CreateStepTable ==
    /\ UNCHANGED <<converter, experiment, doers>>
    /\ IF Len(tests) = 0
       THEN /\ ret' = Raised("create_step_table", None, "IndexError")
            /\ UNCHANGED tests
       ELSE /\ tests' = [tests EXCEPT ![1] = CreateStepTableOn(@)]
            /\ ret' = [op |-> "create_step_table", args |-> None,
                       raised |-> StepTableRaised(WithIrChange(tests[1].dfdata)),
                       value |-> None]

\* _extract_step_values(f) on the rows of one (cycle, step) of the first test
ExtractStepValuesCall(cycle, step) ==
    /\ Len(tests) > 0
    /\ LET f == StepSlice(tests[1].dfdata, <<cycle, step>>)
       IN  ret' = IF ExtractRaised(f) # "none"
                  THEN Raised("_extract_step_values", f, ExtractRaised(f))
                  ELSE Returned("_extract_step_values", f, ExtractStepValues(f))
    /\ UNCHANGED <<tests, converter, experiment, doers>>

ExtractStep ==
    \E cycle \in 1..MaxCycle, step \in StepIndices : ExtractStepValuesCall(cycle, step)

\* the arguments of _make_summary that the model draws, and with them the
\* attribute force_step_table_creation of the cellpydata object at the call
SummaryArgs(mass, use_cellpy_stat_file, find_ocv, find_ir, find_end_voltage, ensure, force) ==
    [mass |-> mass, use_cellpy_stat_file |-> use_cellpy_stat_file,
     find_ocv |-> find_ocv, find_ir |-> find_ir, find_end_voltage |-> find_end_voltage,
     ensure_step_table |-> ensure, force_step_table_creation |-> force]

\* _make_summary(...) on the first test
MakeSummaryCall(args) ==
    /\ UNCHANGED <<converter, experiment, doers>>
    /\ IF Len(tests) = 0
       THEN /\ ret' = Raised("_make_summary", args, "IndexError")
            /\ UNCHANGED tests
       ELSE /\ tests' = [tests EXCEPT ![1] = DatasetAfterSummary(MakeSummaryStages(@, args))]
            /\ ret' = [op |-> "_make_summary", args |-> args,
                       raised |-> MakeSummaryStages(tests[1], args).raised,
                       value |-> None]

\* the masses and the two ways of selecting the rows, no optional extraction,
\* force_step_table_creation as __init__ sets it
MakeSummary ==
    \E mass \in Masses, use_cellpy_stat_file \in BOOLEAN :
        MakeSummaryCall(SummaryArgs(mass, use_cellpy_stat_file,
                                    FALSE, FALSE, FALSE, FALSE, TRUE))

\* the optional extractions, with and without ensure_step_table and
\* force_step_table_creation
MakeSummaryOptional ==
    \E request \in Requests, ensure \in BOOLEAN, force \in BOOLEAN :
        MakeSummaryCall(SummaryArgs(None, TRUE, request[1], request[2], request[3],
                                    ensure, force))

\* _percentage_change(x0, x1, default_zero) and _fractional_change(x0, x1, default_zero)
PercentageChangeCall ==
    \E x0 \in Values, x1 \in Values, default_zero \in BOOLEAN :
        /\ ret' = Returned("_percentage_change",
                           [x0 |-> x0, x1 |-> x1, default_zero |-> default_zero],
                           PercentageChange(x0, x1, default_zero))
        /\ UNCHANGED <<tests, converter, experiment, doers>>

FractionalChangeCall ==
    \E x0 \in Values, x1 \in Values, default_zero \in BOOLEAN :
        /\ ret' = Returned("_fractional_change",
                           [x0 |-> x0, x1 |-> x1, default_zero |-> default_zero],
                           FractionalChange(x0, x1, default_zero))
        /\ UNCHANGED <<tests, converter, experiment, doers>>

\* a call of a method of the Converter
ConverterCall(op, args, outcome) ==
    /\ converter' = outcome.converter
    /\ ret' = [op |-> op, args |-> args, raised |-> outcome.raised, value |-> None]
    /\ UNCHANGED <<tests, experiment, doers>>

\* set_data on a new Converter, or once more with the series it holds
SetDataCall ==
    \E capacity \in CapacitySeries, voltage \in VoltageSeries :
        /\ \/ converter.capacity = None
           \/ /\ converter.capacity = Some(Nums(capacity))
              /\ converter.voltage = Some(Nums(voltage))
        /\ ConverterCall("set_data",
                         [capacity |-> Nums(capacity), voltage |-> Nums(voltage)],
                         SetData(converter, Nums(capacity), Nums(voltage)))

\* inspect_data(), as long as the list of warnings is short
InspectDataCall ==
    /\ Len(converter.errors) <= MaxErrors
    /\ ConverterCall("inspect_data", None, InspectData(converter))

\* the later methods, on a Converter without series or with series of two
\* samples or more
HasCurve == IF converter.capacity = None THEN TRUE ELSE Len(converter.capacity[1]) >= 2

PreProcessDataCall ==
    /\ HasCurve
    /\ ConverterCall("pre_process_data", None, PreProcessData(converter))

IncrementDataCall ==
    /\ HasCurve
    /\ ConverterCall("increment_data", None, IncrementData(converter))

\* post_process_data(), not once more on a series it has filtered
NotFiltered ==
    IF converter.incremental_capacity = None THEN TRUE
    ELSE IsSeries(converter.incremental_capacity[1])

PostProcessDataCall ==
    /\ HasCurve
    /\ NotFiltered
    /\ ConverterCall("post_process_data", None, PostProcessData(converter))

\* the caller sets attributes of the Converter it has made
SetAttributes ==
    /\ converter = NewConverter
    /\ \E a \in Configurations :
          ConverterCall("__setattr__", a,
                        Outcome([converter EXCEPT !.pre_smoothing = a[1], !.smoothing = a[2],
                                                  !.post_smoothing = a[3], !.normalise = a[4],
                                                  !.fixed_voltage_range = a[5]],
                                "none"))

\* a call of a function of ica.py that makes its own Converter: what it
\* returns does not depend on the calls before it, one call is followed
FunctionCall(op, args, result) ==
    /\ ret = NoCall
    /\ ret' = [op |-> op, args |-> args, raised |-> result.raised, value |-> result]
    /\ UNCHANGED <<tests, converter, experiment, doers>>

\* dqdv_cycle(cycle, splitter)
DqdvCycleCall ==
    \E first \in FirstSegments, last \in LastSegments, splitter \in BOOLEAN :
        FunctionCall("dqdv_cycle",
                     [cycle |-> CycleRows(1, first, last), splitter |-> splitter],
                     DqdvCycle(CycleRows(1, first, last), splitter))

\* dqdv_cycles(cycles) with the rows of one cycle or of two
DqdvCyclesOn(cycles) == FunctionCall("dqdv_cycles", [cycles |-> cycles], DqdvCycles(cycles))

DqdvCyclesCall ==
    \E first1 \in FirstSegments, last1 \in LastSegments :
        \/ DqdvCyclesOn(CycleRows(1, first1, last1))
        \/ \E first2 \in FirstSegments, last2 \in LastSegments :
              DqdvCyclesOn(CycleRows(1, first1, last1) \o CycleRows(2, first2, last2))

\* _make_ica_charge_curves with the charge curves of two cycles and the
\* voltage bounds of all of them
MakeIcaChargeCurvesCall ==
    \E curve1 \in LastSegments, curve2 \in LastSegments :
        FunctionCall("_make_ica_charge_curves",
                     [cycles_dfs |-> <<CurveFrame(curve1), CurveFrame(curve2)>>,
                      cycle_numbers |-> <<1, 2>>],
                     MakeIcaChargeCurves(<<CurveFrame(curve1), CurveFrame(curve2)>>,
                                         <<1, 2>>, Num(30), Num(45)))

\* loadres with one more file: its dataset is appended to the list of tests;
\* the model stops loading at MaxTests tests and MaxSamples samples
LoadRes ==
    /\ Len(tests) < MaxTests
    /\ \E dfdata \in MergeFrames :
          /\ SamplesLoaded(tests) + Len(dfdata) <= MaxSamples
          /\ tests' = Append(tests, NewDataset(dfdata))
          /\ ret' = Returned("loadres", None, None)
    /\ UNCHANGED <<converter, experiment, doers>>

\* create_step_table(test_number)
CreateStepTableAt ==
    \E test_number \in 1..Len(tests) :
        /\ tests' = [tests EXCEPT ![test_number] = CreateStepTableOn(@)]
        /\ ret' = [op |-> "create_step_table", args |-> test_number,
                   raised |-> StepTableRaised(WithIrChange(tests[test_number].dfdata)),
                   value |-> None]
        /\ UNCHANGED <<converter, experiment, doers>>

\* _make_summary(test_number) with its default arguments
MakeSummaryAt ==
    \E test_number \in 1..Len(tests) :
        /\ tests' = [tests EXCEPT ![test_number] =
                        DatasetAfterSummary(MakeSummaryStages(@,
                            SummaryArgs(None, TRUE, FALSE, FALSE, FALSE, FALSE, TRUE)))]
        /\ ret' = [op |-> "_make_summary", args |-> test_number,
                   raised |-> MakeSummaryStages(tests[test_number],
                                  SummaryArgs(None, TRUE, FALSE, FALSE, FALSE, FALSE, TRUE)).raised,
                   value |-> None]
        /\ UNCHANGED <<converter, experiment, doers>>

\* merge(): with no test loaded the name "test" is unbound at "self.tests = [test]";
\* a merge, failed or not, raises the cycle indices of the tests appended, and
\* the model stops merging when a cycle index has passed MaxCycle
Merge ==
    /\ UNCHANGED <<converter, experiment, doers>>
    /\ \A n \in 1..Len(tests) : \A c \in CyclesPresent(tests[n].dfdata) : c <= MaxCycle
    /\ IF Len(tests) = 0
       THEN /\ ret' = Raised("merge", None, "UnboundLocalError")
            /\ UNCHANGED tests
       ELSE /\ tests' = MergeFrom(tests, 2).tests
            /\ ret' = [op |-> "merge", args |-> Len(tests),
                       raised |-> MergeFrom(tests, 2).raised, value |-> None]

\* the attributes of the experiment set by the caller
SetExperimentAttributes ==
    /\ \E a \in ExperimentAttributes :
          experiment' = [experiment EXCEPT !.force_cellpy = a[1], !.accept_errors = a[2],
                                           !.save_cellpy = a[3], !.export_raw = a[4],
                                           !.export_ica = a[5], !.all_in_memory = a[6]]
    /\ ret' = Returned("__setattr__", None, None)
    /\ UNCHANGED <<tests, converter, doers>>

\* experiment.update() with the pages of its journal; the model follows an
\* experiment until an update has filled its frames
UpdateOn(pages, run) ==
    /\ experiment.summary_frames = None
    /\ experiment' = Updated(experiment, run)
    /\ ret' = [op |-> "update", args |-> [pages |-> pages], raised |-> run.raised,
               value |-> None]
    /\ UNCHANGED <<tests, converter, doers>>

Update == \E pages \in Pages : UpdateOn(pages, UpdateRows(experiment, pages, Len(pages)))

\* a call on the Doers
DoerCall(op, args, ds, raised) ==
    /\ doers' = ds
    /\ ret' = [op |-> op, args |-> args, raised |-> raised, value |-> None]
    /\ UNCHANGED <<tests, converter, experiment>>

\* doer = SomeDoer(*args)
NewDoer ==
    /\ Len(doers) < MaxDoers
    /\ \E args \in DoerArgs :
          IF ValidateRaised(args) # "none"
          THEN DoerCall("Doer", args, doers, ValidateRaised(args))
          ELSE DoerCall("Doer", args, Append(doers, DoerInit(args)), "none")

\* doer.assign(experiment)
Assign ==
    \E k \in 1..Len(doers), e \in ExperimentNames :
        /\ Len(doers[k].experiments) < MaxExperiments
        /\ DoerCall("assign", [doer |-> k, experiment |-> e],
                    [doers EXCEPT ![k] = assign(@, e)], "none")

\* doer.empty_the_farms()
EmptyTheFarms ==
    \E k \in 1..Len(doers) :
        DoerCall("empty_the_farms", [doer |-> k],
                 [doers EXCEPT ![k] = empty_the_farms(doers, k)], "none")

----------------------------------------------------------------------------
(* Specifications *)

\* cellpydata.__init__, Converter.__init__ and CyclingExperiment.__init__: no
\* test loaded, no curve set, no journal processed, no Doer constructed,
\* nothing called
Init ==
    /\ tests = <<>>
    /\ converter = NewConverter
    /\ experiment = NewExperiment
    /\ doers = <<>>
    /\ ret = NoCall

\* a test of several cycles and steps: building the step table
Next == Load \/ CreateStepTable

Spec == Init /\ [][Next]_vars

\* a test of one or two steps with all kinds of samples: extraction and
\* classification
NextStep == LoadStep \/ CreateStepTable \/ ExtractStep

SpecStep == Init /\ [][NextStep]_vars

\* a test of several cycles: building the summary
NextSummary == LoadCycles \/ MakeSummary

SpecSummary == Init /\ [][NextSummary]_vars

\* a test that ran a schedule: the summary with its optional extractions
NextOptional == LoadPlan \/ CreateStepTable \/ MakeSummaryOptional

SpecOptional == Init /\ [][NextOptional]_vars

\* one Converter and the calls of its methods in any order
NextConverter ==
    \/ SetAttributes
    \/ SetDataCall
    \/ InspectDataCall
    \/ PreProcessDataCall
    \/ IncrementDataCall
    \/ PostProcessDataCall

SpecConverter == Init /\ [][NextConverter]_vars

\* the functions that run a Converter over the segments of cycles
NextDqdv == DqdvCycleCall \/ DqdvCyclesCall \/ MakeIcaChargeCurvesCall

SpecDqdv == Init /\ [][NextDqdv]_vars

\* several files loaded into one object, their tables made, and merged
NextMerge == LoadRes \/ CreateStepTableAt \/ MakeSummaryAt \/ Merge

SpecMerge == Init /\ [][NextMerge]_vars

\* an experiment, its attributes set and its journal processed
NextExperiment == SetExperimentAttributes \/ Update

SpecExperiment == Init /\ [][NextExperiment]_vars

\* the two helpers on their own
NextFn == PercentageChangeCall \/ FractionalChangeCall

SpecFn == Init /\ [][NextFn]_vars

\* the Doers of the batch tools
NextDoer == NewDoer \/ Assign \/ EmptyTheFarms

SpecDoer == Init /\ [][NextDoer]_vars

----------------------------------------------------------------------------
(* Properties *)

Loaded == Len(tests) > 0

TableMade == Loaded /\ tests[1].step_table_made

TableRows == IF TableMade THEN SeqToSet(tests[1].step_table) ELSE {}

\* the rules whose mask a row satisfies
MatchingRules(r) == {k \in DOMAIN RuleLabels : RuleMask(k, r)}

\* start, end and delta of one of the four described quantities of a row
Quantities == {"I", "V", "Charge", "Discharge"}

QuantityOf(r, q) ==
    CASE q = "I" -> [start |-> r.I_start, end |-> r.I_end, delta |-> r.I_delta]
      [] q = "V" -> [start |-> r.V_start, end |-> r.V_end, delta |-> r.V_delta]
      [] q = "Charge" ->
            [start |-> r.Charge_start, end |-> r.Charge_end, delta |-> r.Charge_delta]
      [] q = "Discharge" ->
            [start |-> r.Discharge_start, end |-> r.Discharge_end,
             delta |-> r.Discharge_delta]

\* C1: after create_step_table every row of the step table has a type of the
\* fixed taxonomy, and a row that matches no rule has the type not_known.
C1_TypeAlwaysAssigned ==
    \A r \in TableRows :
        /\ r.type \in SeqToSet(list_of_step_types)
        /\ MatchingRules(r) = {} => r.type = "not_known"

\* C2: the type of a row is the label of the last rule, in the order ocvrlx_up,
\* ocvrlx_down, discharge, charge, cv_discharge, cv_charge, ir, whose mask the
\* row satisfies; a row satisfying no mask keeps the cell as created.
C2_LastMatchingRuleWins ==
    \A r \in TableRows :
        IF MatchingRules(r) = {}
        THEN r.type = NotSet
        ELSE r.type = RuleLabels[IntMax(MatchingRules(r))]

\* a row satisfying the discharge mask and the cv_discharge mask, typed cv_discharge
C2_Witness ==
    \E r \in TableRows :
        /\ mask_discharge_changed(r) /\ mask_current_negative(r)
        /\ mask_voltage_stable(r) /\ mask_current_down(r)
        /\ r.type = "cv_discharge"

\* C3: in cycle 1, a step 1 of constant current -1 A whose discharge capacity
\* changes by 50 % is typed discharge, and a step 2 of zero current whose
\* voltage rises by 3 % is typed ocvrlx_up.
IsScenarioStep1(r) ==
    /\ r.cycle = 1 /\ r.step = 1
    /\ r.I_max = Num(-1) /\ r.I_min = Num(-1)
    /\ r.Discharge_delta = Num(50)

IsScenarioStep2(r) ==
    /\ r.cycle = 1 /\ r.step = 2
    /\ r.I_max = Num(0) /\ r.I_min = Num(0)
    /\ r.V_delta = Num(3)

C3_ScenarioTypes ==
    \A r \in TableRows :
        /\ IsScenarioStep1(r) => r.type = "discharge"
        /\ IsScenarioStep2(r) => r.type = "ocvrlx_up"

C3_Witness ==
    /\ TableMade
    /\ Len(tests[1].step_table) = 2
    /\ IsScenarioStep1(tests[1].step_table[1])
    /\ tests[1].step_table[1].type = "discharge"
    /\ IsScenarioStep2(tests[1].step_table[2])
    /\ tests[1].step_table[2].type = "ocvrlx_up"

\* C4: a row whose deltas of voltage, current, charge capacity and discharge
\* capacity are all exactly 0 is typed ir.
AllDeltasZero(r) ==
    \A q \in Quantities : QuantityOf(r, q).delta = Num(0)

C4_NoChangeIsIr ==
    \A r \in TableRows : AllDeltasZero(r) => r.type = "ir"

\* a step without current and without any change
C4_Witness ==
    \E r \in TableRows :
        /\ AllDeltasZero(r)
        /\ r.I_max = Num(0) /\ r.I_min = Num(0)
        /\ r.type = "ir"

\* C5 as stated: the delta of a quantity is (end - start) * 100 / start when
\* start is not 0, 0 when start and end are both 0, and end - start when
\* start is 0 and end is not.
DeltaAsStated(x_start, x_end) ==
    IF x_start # Num(0) THEN RDiv(RMul(RSub(x_end, x_start), Num(100)), x_start)
    ELSE IF x_end = x_start THEN Num(0)
    ELSE RSub(x_end, x_start)

C5_DeltaAsStated ==
    \A r \in TableRows : \A q \in Quantities :
        QuantityOf(r, q).delta = DeltaAsStated(QuantityOf(r, q).start, QuantityOf(r, q).end)

\* C5 amended: the delta of a quantity is (end - start) * 100 / start when
\* start is not 0, and 0 whenever start is 0, whatever the end.
C5_DeltaZeroFromZero ==
    \A r \in TableRows : \A q \in Quantities :
        LET x == QuantityOf(r, q)
        IN  IF x.start # Num(0)
            THEN x.delta = RDiv(RMul(RSub(x.end, x.start), Num(100)), x.start)
            ELSE x.delta = Num(0)

\* a step whose discharge capacity goes from 0 to 2, and whose charge capacity
\* goes from 2 to 3
C5_Witness ==
    \E r \in TableRows :
        /\ r.Discharge_start = Num(0) /\ r.Discharge_end = Num(2)
        /\ r.Discharge_delta = Num(0)
        /\ r.Charge_start = Num(2) /\ r.Charge_end = Num(3)
        /\ r.Charge_delta = Num(50)

\* C6: _percentage_change(0.0, 0.0) is 0.0 and _percentage_change(0.0, 5.0) is
\* a number, not NaN, and nothing is raised, with default_zero set or not.
C6_ZeroStartDefined ==
    (ret.op = "_percentage_change" /\ ret.args.x0 = Num(0)) =>
        /\ ret.raised = "none"
        /\ ret.args.x1 = Num(0) => ret.value = Num(0)
        /\ ret.args.x1 = Num(5) => IsFinite(ret.value)

C6_Witness ==
    /\ ret.op = "_percentage_change"
    /\ ret.args = [x0 |-> Num(0), x1 |-> Num(5), default_zero |-> FALSE]
    /\ ret.value = Num(5)

\* C7: the step table has exactly one row for every (cycle, step) pair of the
\* time series and no other row, and create_step_table does not fail on a
\* loaded test, whatever the order of the cycle and step indices.
PairsOf(df) == {<<df[i].Cycle_Index, df[i].Step_Index>> : i \in 1..Len(df)}

C7_OneRowPerPair ==
    /\ (Loaded /\ ret.op = "create_step_table") => ret.raised = "none"
    /\ TableMade =>
        LET st == tests[1].step_table
        IN  /\ Len(st) = Cardinality(PairsOf(tests[1].dfdata))
            /\ \A pair \in PairsOf(tests[1].dfdata) :
                  Cardinality({k \in 1..Len(st) :
                                  st[k].cycle = pair[1] /\ st[k].step = pair[2]}) = 1

\* a table made from a series in which a cycle index comes back after another
C7_Witness ==
    /\ TableMade
    /\ \E i, j, k \in 1..Len(tests[1].dfdata) :
          /\ i < j /\ j < k
          /\ tests[1].dfdata[i].Cycle_Index = tests[1].dfdata[k].Cycle_Index
          /\ tests[1].dfdata[i].Step_Index = tests[1].dfdata[k].Step_Index
          /\ tests[1].dfdata[j].Cycle_Index # tests[1].dfdata[i].Cycle_Index
    /\ Len(tests[1].step_table) = 2

\* C8 as stated: the rows of the step table are sorted ascending by cycle and,
\* within a cycle, ascending by step.
C8_RowsAscending ==
    TableMade =>
        LET st == tests[1].step_table
        IN  \A i, j \in 1..Len(st) :
                i < j => \/ st[i].cycle < st[j].cycle
                         \/ st[i].cycle = st[j].cycle /\ st[i].step < st[j].step

\* C8 amended: the rows of the step table are in the order in which the cycles
\* first appear in the time series and, within a cycle, in the order in which
\* its steps first appear.
FirstRowOf(df, Test(_)) == CHOOSE i \in 1..Len(df) : Test(df[i]) /\ \A k \in 1..(i - 1) : ~Test(df[k])

C8_RowsInOrderOfFirstAppearance ==
    TableMade =>
        LET st == tests[1].step_table
            df == tests[1].dfdata
            FirstOfCycle(c) == LET T(row) == row.Cycle_Index = c IN FirstRowOf(df, T)
            FirstOfStep(c, x) ==
                LET T(row) == row.Cycle_Index = c /\ row.Step_Index = x
                IN  FirstRowOf(df, T)
        IN  \A i, j \in 1..Len(st) :
                i < j =>
                    \/ FirstOfCycle(st[i].cycle) < FirstOfCycle(st[j].cycle)
                    \/ /\ st[i].cycle = st[j].cycle
                       /\ FirstOfStep(st[i].cycle, st[i].step)
                            < FirstOfStep(st[j].cycle, st[j].step)

\* a table whose first row is of a later cycle than its second row
C8_Witness ==
    /\ TableMade
    /\ Len(tests[1].step_table) >= 2
    /\ tests[1].step_table[1].cycle > tests[1].step_table[2].cycle

\* C9: _extract_step_values on a slice without rows fails with
\* InsufficientDataError and returns no values.
C9_EmptySliceInsufficientData ==
    (ret.op = "_extract_step_values" /\ Len(ret.args) = 0) =>
        /\ ret.raised = "InsufficientDataError"
        /\ ret.value = None

\* C10: _make_summary with mass 0, a negative mass or no mass fails with
\* InvalidMassError and leaves the summary of the dataset as it was.
InvalidMasses == {None, <<0>>, <<-5>>}

C10_InvalidMassRejected ==
    [][(Loaded /\ ret'.op = "_make_summary" /\ ret'.args.mass \in InvalidMasses)
          => (ret'.raised = "InvalidMassError" /\ tests' = tests)]_vars

\* C11: in a summary made by _make_summary the discharge capacity loss of the
\* first row is 0.0 and that of every later row is the normalised discharge
\* capacity of the row before minus that of the row; likewise for charge.
SummaryMade == Loaded /\ tests[1].dfsummary_made

C11_LossFromPreviousRow ==
    SummaryMade =>
        LET s == tests[1].dfsummary
        IN  \A n \in 1..Len(s) :
                IF n = 1
                THEN /\ s[n].discharge_cap_loss = Num(0)
                     /\ s[n].charge_cap_loss = Num(0)
                ELSE /\ s[n].discharge_cap_loss
                            = RSub(s[n - 1].discharge_cap, s[n].discharge_cap)
                     /\ s[n].charge_cap_loss
                            = RSub(s[n - 1].charge_cap, s[n].charge_cap)

\* a summary of two cycles whose discharge capacity and charge capacity both
\* change from the first to the second
C11_Witness ==
    /\ SummaryMade
    /\ Len(tests[1].dfsummary) = 2
    /\ tests[1].dfsummary[2].discharge_cap_loss # Num(0)
    /\ tests[1].dfsummary[2].charge_cap_loss # Num(0)

\* C12: _make_summary selecting the rows from the raw data does not fail on a
\* time series with rows, and the summary has one row for every cycle index
\* present, the row of the greatest data point of that cycle, in ascending
\* order of the cycles; stated for series whose cycle index never decreases.
CyclesNeverDecrease(df) ==
    \A i \in 1..(Len(df) - 1) : df[i].Cycle_Index <= df[i + 1].Cycle_Index

LastPointOfCycle(df, cycle) ==
    IntMax({df[i].Data_Point : i \in {k \in 1..Len(df) : df[k].Cycle_Index = cycle}})

C12_OneRowPerCyclePresent ==
    (/\ Loaded
     /\ ret.op = "_make_summary"
     /\ ~ret.args.use_cellpy_stat_file
     /\ Len(tests[1].dfdata) > 0
     /\ CyclesNeverDecrease(tests[1].dfdata)) =>
        LET df == tests[1].dfdata
            s == tests[1].dfsummary
        IN  /\ ret.raised = "none"
            /\ tests[1].dfsummary_made
            /\ Len(s) = Cardinality(CyclesPresent(df))
            /\ \A n \in 1..Len(s) :
                  /\ s[n].Cycle_Index \in CyclesPresent(df)
                  /\ s[n].Data_Point = LastPointOfCycle(df, s[n].Cycle_Index)
                  /\ n > 1 => s[n - 1].Cycle_Index < s[n].Cycle_Index

\* C13: a call of _make_summary that asks for an optional extraction (OCV,
\* internal resistance or end voltage) on a dataset without a step table, and
\* does not ask for the step table to be ensured, raises nothing, produces the
\* summary without the columns of the extractions, and leaves the dataset
\* without a step table: the extraction is skipped, neither fatal nor computed.
ExtractionColumns ==
    {"ocv_first_min", "ocv_first_max", "ocv_second_min", "ocv_second_max",
     "ir_discharge", "ir_charge", "end_voltage_discharge", "end_voltage_charge"}

ExtractionAsked(args) == args.find_ocv \/ args.find_ir \/ args.find_end_voltage

C13_ExtractionSkipped ==
    [][(/\ Loaded
        /\ ~tests[1].step_table_made
        /\ ret'.op = "_make_summary"
        /\ ~ret'.args.ensure_step_table
        /\ ExtractionAsked(ret'.args)) =>
            (/\ ret'.raised = "none"
             /\ tests'[1].dfsummary_made
             /\ ~tests'[1].step_table_made
             /\ \A n \in 1..Len(tests'[1].dfsummary) :
                    DOMAIN tests'[1].dfsummary[n] \cap ExtractionColumns = {})]_vars

\* C14 as stated: set_data given a capacity or a voltage series of length 0 or
\* 1 raises NullData and leaves the stored capacity and voltage as they were.
IsShort(x) == Len(x) <= 1

C14_SetDataRejectsShort ==
    [][(/\ ret'.op = "set_data"
        /\ IsShort(ret'.args.capacity) \/ IsShort(ret'.args.voltage)) =>
            (/\ ret'.raised = "NullData"
             /\ converter'.capacity = converter.capacity
             /\ converter'.voltage = converter.voltage)]_vars

\* C14: set_data stores any two series of equal length without raising, also
\* of length 0 or 1; it is inspect_data that raises NullData when the stored
\* capacity or voltage is unset or of length 0 or 1, and then it changes
\* nothing of the Converter but len_capacity and len_voltage.
C14_ShortRejectedByInspectData ==
    [][/\ (ret'.op = "set_data" /\ Len(ret'.args.capacity) = Len(ret'.args.voltage)) =>
            (/\ ret'.raised = "none"
             /\ converter'.capacity = Some(ret'.args.capacity)
             /\ converter'.voltage = Some(ret'.args.voltage))
       /\ (/\ ret'.op = "inspect_data"
           /\ \/ converter.capacity = None
              \/ converter.voltage = None
              \/ IsShort(converter.capacity[1])
              \/ IsShort(converter.voltage[1])) =>
            (/\ ret'.raised = "NullData"
             /\ [converter' EXCEPT !.len_capacity = None, !.len_voltage = None]
                    = [converter EXCEPT !.len_capacity = None, !.len_voltage = None])]_vars

\* inspect_data has refused a Converter that holds one sample
C14_Witness ==
    /\ ret.op = "inspect_data"
    /\ ret.raised = "NullData"
    /\ converter.capacity # None
    /\ Len(converter.capacity[1]) = 1
    /\ converter.len_capacity = Some(1)

\* C15: a method of the Converter called while the result of the stage before
\* it is still unset does not return normally, unless the call itself has run
\* that stage: it is rejected (whatever the exception) or the predecessor
\* result is set when it returns.
PredecessorResult(c, op) ==
    CASE op = "inspect_data" -> c.capacity
      [] op = "pre_process_data" -> c.len_capacity
      [] op = "increment_data" -> c.voltage_preprocessed
      [] op = "post_process_data" -> c.incremental_capacity
      [] OTHER -> Some(op)

C15_NoStageOnUnsetResults ==
    [][(ret'.op \in {"inspect_data", "pre_process_data", "increment_data",
                     "post_process_data"}
        /\ PredecessorResult(converter, ret'.op) = None) =>
            (ret'.raised # "none" \/ PredecessorResult(converter', ret'.op) # None)]_vars

\* C16 as stated: when post_process_data has normalised (normalise set, no
\* fixed voltage range), the integral over the voltage of the incremental
\* capacity it leaves is the normalising factor, whatever the direction.
Normalising(c) == c.normalise /\ c.fixed_voltage_range = None

Integral(c) == Simps(c.incremental_capacity[1], c.voltage_processed[1])

HasArea(c) == IsFinite(Integral(c)) /\ Integral(c) # Num(0)

C16_IntegralIsFactor ==
    [][(/\ ret'.op = "post_process_data"
        /\ ret'.raised = "none"
        /\ Normalising(converter)
        /\ HasArea(converter)) =>
            Integral(converter') = converter.normalising_factor[1]]_vars

\* C16: the integral is the normalising factor when the area under the curve
\* that post_process_data was given is positive (capacity rising with the
\* voltage), and minus the normalising factor when it is negative (capacity
\* rising while the voltage falls): only its size is that of the factor.
C16_IntegralIsFactorUpToSign ==
    [][(/\ ret'.op = "post_process_data"
        /\ ret'.raised = "none"
        /\ Normalising(converter)
        /\ HasArea(converter)) =>
            Integral(converter') =
                IF RGt(Integral(converter), Num(0))
                THEN converter.normalising_factor[1]
                ELSE RNeg(converter.normalising_factor[1])]_vars

\* a curve of falling voltage has been normalised: the integral is minus the
\* normalising factor, which is not 0
C16_Witness ==
    /\ ret.op = "post_process_data"
    /\ ret.raised = "none"
    /\ Normalising(converter)
    /\ converter.normalising_factor[1] # Num(0)
    /\ Integral(converter) = RNeg(converter.normalising_factor[1])

\* C17: on a Converter with the attributes of __init__ that holds a curve of
\* two samples or more, every stage called after the stage before it has left
\* its result completes without raising.
DefaultAttributes(c) ==
    /\ c.pre_smoothing
    /\ c.smoothing
    /\ c.post_smoothing
    /\ c.normalise
    /\ c.fixed_voltage_range = None

HoldsCurve(c) == IF c.capacity = None THEN FALSE ELSE Len(c.capacity[1]) >= 2

C17_PipelineCompletes ==
    (DefaultAttributes(converter) /\ HoldsCurve(converter)) =>
        /\ ret.op = "inspect_data" => ret.raised = "none"
        /\ (ret.op = "pre_process_data" /\ converter.len_capacity # None)
                => ret.raised = "none"
        /\ (ret.op = "increment_data" /\ converter.voltage_preprocessed # None)
                => ret.raised = "none"
        /\ (ret.op = "post_process_data" /\ converter.incremental_capacity # None)
                => ret.raised = "none"

\* C18: running a stage once more on the same Converter with the same curve
\* leaves the Converter as the first run left it, outputs, diagnostics and the
\* list of warnings included; checked for every stage that completed before
\* and completes again.
HasRun(c, op) ==
    CASE op = "inspect_data" -> c.normalising_factor # None
      [] op = "pre_process_data" -> c.voltage_preprocessed # None
      [] op = "increment_data" -> c.incremental_capacity # None
      [] OTHER -> FALSE

C18_SecondRunChangesNothing ==
    [][(/\ ret'.op \in {"inspect_data", "pre_process_data", "increment_data"}
        /\ ret'.raised = "none"
        /\ HasRun(converter, ret'.op)) =>
            (/\ converter'.errors = converter.errors
             /\ converter'.normalising_factor = converter.normalising_factor
             /\ converter'.voltage_preprocessed = converter.voltage_preprocessed
             /\ converter'.capacity_inverted = converter.capacity_inverted)]_vars

\* C19: what dqdv_cycle returns with splitter=True are two arrays of equal
\* length: the voltages and the incremental capacities that a Converter leaves
\* for the segment of direction -1, then one element that is NaN in both
\* arrays and the only NaN, then those that a Converter leaves for the segment
\* of direction 1, last element first; and what dqdv_cycles returns holds for
\* every cycle of its argument, and for no other, the rows of that series
\* under the cycle number.
ProcessedSegment(cycle, direction) == ConvertDirection(cycle, direction).converter

IsSplitOf(v, dq, first, last) ==
    /\ Len(v) = Len(dq)
    /\ Len(v) = Len(first.voltage_processed[1]) + 1 + Len(last.voltage_processed[1])
    /\ \A i \in 1..Len(v) :
          /\ IsNaN(v[i]) <=> i = Len(first.voltage_processed[1]) + 1
          /\ IsNaN(dq[i]) <=> i = Len(first.voltage_processed[1]) + 1
    /\ \A i \in 1..Len(first.voltage_processed[1]) :
          /\ v[i] = first.voltage_processed[1][i]
          /\ dq[i] = first.incremental_capacity[1][i]
    /\ \A i \in 1..Len(last.voltage_processed[1]) :
          /\ v[Len(v) + 1 - i] = last.voltage_processed[1][i]
          /\ dq[Len(v) + 1 - i] = last.incremental_capacity[1][i]

IsSplitSeries(cycle, voltage, incremental_capacity) ==
    \A first \in {ProcessedSegment(cycle, -1)}, last \in {ProcessedSegment(cycle, 1)} :
        \A v \in {voltage}, dq \in {incremental_capacity} : IsSplitOf(v, dq, first, last)

RowsOfCycle(frame, cycle_number) ==
    LET Is(row) == row.cycle = cycle_number IN SelectSeq(frame, Is)

Column(frame, h) == [i \in 1..Len(frame) |-> frame[i][h]]

C19_SplitSeriesPerCycle ==
    /\ (ret.op = "dqdv_cycle" /\ ret.raised = "none" /\ ret.args.splitter) =>
            IsSplitSeries(ret.args.cycle, ret.value.voltage, ret.value.incremental_capacity)
    /\ (ret.op = "dqdv_cycles" /\ ret.raised = "none") =>
            /\ \A i \in 1..Len(ret.value.value) :
                  \E k \in 1..Len(ret.args.cycles) :
                      ret.args.cycles[k].cycle = ret.value.value[i].cycle
            /\ \A c \in {ret.args.cycles[k].cycle : k \in 1..Len(ret.args.cycles)} :
                  IsSplitSeries(Group(ret.args.cycles, c),
                                Column(RowsOfCycle(ret.value.value, c), "voltage"),
                                Column(RowsOfCycle(ret.value.value, c), "dq"))

\* dqdv_cycles has returned the series of two cycles
C19_Witness ==
    /\ ret.op = "dqdv_cycles"
    /\ ret.raised = "none"
    /\ Len(RowsOfCycle(ret.value.value, 1)) >= 9
    /\ Len(RowsOfCycle(ret.value.value, 2)) >= 9
    /\ IsNaN(RowsOfCycle(ret.value.value, 2)[5].dq)

\* C20: dqdv_cycles and _make_ica_charge_curves do not raise whatever the
\* curves of the cycles are, and what they return holds every cycle whose
\* curves a Converter can process.
Processable(capacity, voltage) == Convert(capacity, voltage).raised = "none"

ProcessableCycle(cycle) ==
    /\ Processable(Col(OfDirection(cycle, -1), "capacity"), Col(OfDirection(cycle, -1), "voltage"))
    /\ Processable(Col(OfDirection(cycle, 1), "capacity"), Col(OfDirection(cycle, 1), "voltage"))

C20_BatchNotAborted ==
    /\ (ret.op = "dqdv_cycles" /\ Len(ret.args.cycles) > 0) =>
            /\ ret.raised = "none"
            /\ \A c \in {ret.args.cycles[k].cycle : k \in 1..Len(ret.args.cycles)} :
                  ProcessableCycle(Group(ret.args.cycles, c))
                      => Len(RowsOfCycle(ret.value.value, c)) > 0
    /\ ret.op = "_make_ica_charge_curves" =>
            /\ ret.raised = "none"
            /\ \A k \in 1..Len(ret.args.cycles_dfs) :
                  Processable(Col(ret.args.cycles_dfs[k], "q"), Col(ret.args.cycles_dfs[k], "v"))
                      => \E j \in 1..Len(ret.value.dq) :
                             ret.value.dq[j].name = ret.args.cycle_numbers[k]

\* C21: after any sequence of loading, table creation and merging, a dataset
\* whose step_table_made flag is set has a step table with exactly one row for
\* every (cycle, step) pair of its time series, and a dataset whose
\* dfsummary_made flag is set has a summary with a row for every cycle of its
\* time series.
TableCoversSeries(test) ==
    /\ Len(test.step_table) = Cardinality(PairsOf(test.dfdata))
    /\ \A pair \in PairsOf(test.dfdata) :
          Cardinality({k \in 1..Len(test.step_table) :
                          /\ test.step_table[k].cycle = pair[1]
                          /\ test.step_table[k].step = pair[2]}) = 1

SummaryCoversSeries(test) ==
    CyclesPresent(test.dfdata) \subseteq CyclesPresent(test.dfsummary)

C21_TablesFollowSeries ==
    \A n \in 1..Len(tests) :
        /\ tests[n].step_table_made => TableCoversSeries(tests[n])
        /\ tests[n].dfsummary_made => SummaryCoversSeries(tests[n])

\* C22: with accept_errors set, update() does not raise, and afterwards every
\* row of the pages has an entry in summary_frames or in errors["update"].
RowsRecorded(e, pages) ==
    /\ "update" \in DOMAIN e.errors
    /\ e.summary_frames # None
    /\ \A indx \in 1..Len(pages) :
          \/ indx \in e.summary_frames[1]
          \/ \E k \in 1..Len(e.errors["update"]) : e.errors["update"][k].indx = indx

C22_UpdateRecordsEveryRow ==
    (ret.op = "update" /\ experiment.accept_errors) =>
        /\ ret.raised = "none"
        /\ RowsRecorded(experiment, ret.args.pages)

\* C23: a row with nearly flat voltage (|V_delta| < 2), sharply falling
\* current (I_delta < -4) and negative average current (below -1e-13) is typed
\* cv_discharge, with positive average current (above 1e-13) cv_charge, whatever
\* the earlier rules wrote; only a row typed ir by the last rule is excepted.
IsFlatAndFalling(r) ==
    /\ RLt(RAbs(r.V_delta), Num(2))
    /\ RLt(r.I_delta, Num(-4))

TypedOrIr(r, type) == r.type = type \/ (AllDeltasZero(r) /\ r.type = "ir")

C23_ConstantVoltageTyped ==
    \A r \in TableRows :
        IsFlatAndFalling(r) =>
            /\ GtPow10Neg(RNeg(r.I_avr), 13) => TypedOrIr(r, "cv_discharge")
            /\ GtPow10Neg(r.I_avr, 13) => TypedOrIr(r, "cv_charge")

\* a row of falling positive current whose charge capacity changed, so that the
\* charge rule wrote its label first
C23_Witness ==
    \E r \in TableRows :
        /\ IsFlatAndFalling(r)
        /\ GtPow10Neg(r.I_avr, 13)
        /\ RGt(RAbs(r.Charge_delta), Num(2))
        /\ r.type = "cv_charge"

\* C24 as stated: the rate of a quantity returned by _extract_step_values is
\* its first sample divided by the duration of the slice (last step time minus
\* first step time), and NaN when the duration is 0.
Extracted == ret.op = "_extract_step_values" /\ ret.raised = "none"

Duration(f) == f[Len(f)].Step_Time - f[1].Step_Time

RateOf(v, q) ==
    CASE q = "I" -> v.I_rate
      [] q = "V" -> v.V_rate
      [] q = "Charge" -> v.Charge_rate
      [] q = "Discharge" -> v.Discharge_rate

RateFrom(x, duration) == IF duration = 0 THEN NaN ELSE RDiv(x, Num(duration))

SummaryMadeWith(option) ==
    /\ ret.op = "_make_summary" /\ ret.raised = "none"
    /\ ret.args[option]
    /\ SummaryMade

\* the samples of a cycle that belong to a step the step table types steptype
SamplesOfType(test, cycle, steptype) ==
    {i \in 1..Len(test.dfdata) :
        /\ test.dfdata[i].Cycle_Index = cycle
        /\ \E k \in 1..Len(test.step_table) :
              /\ test.step_table[k].type = steptype
              /\ test.step_table[k].cycle = cycle
              /\ test.step_table[k].step = test.dfdata[i].Step_Index}

IntMin(S) == CHOOSE m \in S : \A x \in S : m <= x

FirstSampleIs(test, cycle, steptype, h, cell) ==
    SamplesOfType(test, cycle, steptype) # {} =>
        cell = Num(test.dfdata[IntMin(SamplesOfType(test, cycle, steptype))][h])

LastSampleIs(test, cycle, steptype, h, cell) ==
    SamplesOfType(test, cycle, steptype) # {} =>
        cell = Num(test.dfdata[IntMax(SamplesOfType(test, cycle, steptype))][h])

NoStepOfType(test, cycle, steptype) == SamplesOfType(test, cycle, steptype) = {}

ZeroWhenMissing(test, cycle, steptype, cell) ==
    NoStepOfType(test, cycle, steptype) => cell = Num(0)

RowsOfCycleIn(summary, cycle) == {j \in 1..Len(summary) : summary[j].Cycle_Index = cycle}

IrOfCycles(test) ==
    \A j \in 1..Len(test.dfsummary) :
        /\ ZeroWhenMissing(test, test.dfsummary[j].Cycle_Index, "discharge",
                           test.dfsummary[j].ir_discharge)
        /\ ZeroWhenMissing(test, test.dfsummary[j].Cycle_Index, "charge",
                           test.dfsummary[j].ir_charge)
        /\ FirstSampleIs(test, test.dfsummary[j].Cycle_Index, "discharge",
                         "Internal_Resistance", test.dfsummary[j].ir_discharge)
        /\ FirstSampleIs(test, test.dfsummary[j].Cycle_Index, "charge",
                         "Internal_Resistance", test.dfsummary[j].ir_charge)

EndVoltageOfCycles(test) ==
    \A j \in 1..Len(test.dfsummary) :
        /\ ZeroWhenMissing(test, test.dfsummary[j].Cycle_Index, "discharge",
                           test.dfsummary[j].end_voltage_discharge)
        /\ ZeroWhenMissing(test, test.dfsummary[j].Cycle_Index, "charge",
                           test.dfsummary[j].end_voltage_charge)
        /\ LastSampleIs(test, test.dfsummary[j].Cycle_Index, "discharge",
                        "Voltage", test.dfsummary[j].end_voltage_discharge)
        /\ LastSampleIs(test, test.dfsummary[j].Cycle_Index, "charge",
                        "Voltage", test.dfsummary[j].end_voltage_charge)

C26_MissingStepGivesZero ==
    (/\ TableMade
     /\ ret.op = "_make_summary"
     /\ ret.args.find_ir \/ ret.args.find_end_voltage) =>
        /\ ret.raised = "none"
        /\ SummaryMade
        /\ \A cycle \in CyclesPresent(tests[1].dfdata) :
              Cardinality(RowsOfCycleIn(tests[1].dfsummary, cycle)) = 1
        /\ ret.args.find_ir => IrOfCycles(tests[1])
        /\ ret.args.find_end_voltage => EndVoltageOfCycles(tests[1])

\* a charge in cycle 1 and a discharge in cycle 2, summarised with both
\* extractions: each cycle has 0 for the step it lacks and its own value for
\* the step it has
C26_Witness ==
    /\ TableMade /\ SummaryMade
    /\ ret.op = "_make_summary" /\ ret.raised = "none"
    /\ ret.args.find_ir /\ ret.args.find_end_voltage
    /\ Len(tests[1].dfsummary) = 2
    /\ NoStepOfType(tests[1], 1, "discharge") /\ NoStepOfType(tests[1], 2, "charge")
    /\ \E j, k \in 1..2 :
          /\ tests[1].dfsummary[j].Cycle_Index = 1
          /\ tests[1].dfsummary[j].ir_discharge = Num(0)
          /\ tests[1].dfsummary[j].ir_charge = Num(1)
          /\ tests[1].dfsummary[k].Cycle_Index = 2
          /\ tests[1].dfsummary[k].end_voltage_charge = Num(0)
          /\ tests[1].dfsummary[k].end_voltage_discharge = Num(95)


\* C27: after increment_data on a pre-processed curve of n points,
\* incremental_capacity has n-1 points, each the difference of two neighbours
\* of capacity_inverted over the voltage step, and voltage_processed has n-1
\* points, point i lying half a step above voltage_inverted[i], midway between
\* the two samples the difference was taken from.
Incremented ==
    /\ ret.op = "increment_data"
    /\ ret.raised = "none"

DerivativeOfNeighbours(c) ==
    /\ Len(c.incremental_capacity[1]) = Len(c.voltage_preprocessed[1]) - 1
    /\ \A i \in 1..Len(c.incremental_capacity[1]) :
          c.incremental_capacity[1][i] =
              RDiv(RSub(c.capacity_inverted[1][i + 1], c.capacity_inverted[1][i]),
                   c.voltage_inverted_step[1])

AtMidpoints(c) ==
    /\ Len(c.voltage_processed[1]) = Len(c.voltage_preprocessed[1]) - 1
    /\ \A i \in 1..Len(c.voltage_processed[1]) :
          c.voltage_processed[1][i] =
              RAdd(c.voltage_inverted[1][i], RMul(Rat(1, 2), c.voltage_inverted_step[1]))

C27_DerivativeAtMidpoints ==
    Incremented => DerivativeOfNeighbours(converter) /\ AtMidpoints(converter)


\* C28: when post_smoothing and normalise are both enabled, the series that
\* post_process_data leaves in incremental_capacity is the Gaussian-filtered
\* series (sigma from voltage_fwhm / voltage_step, floor 2) times one scale
\* factor: element i is element i of the filtered series, scaled. A series of
\* one value throughout is left as it is by the filter and is not looked at.
SmoothingAndNormalising(c) ==
    /\ c.post_smoothing
    /\ c.normalise
    /\ c.fixed_voltage_range = None

Varying(x) == \E i, j \in 1..Len(x) : x[i] # x[j]

ScaledElementOf(e, filtered) ==
    /\ DOMAIN e = {"scaled", "by"}
    /\ e.scaled = filtered

SmoothedThenScaled(c, after) ==
    /\ Len(after.incremental_capacity[1]) = Len(c.incremental_capacity[1])
    /\ \A i \in 1..Len(after.incremental_capacity[1]) :
          /\ ScaledElementOf(after.incremental_capacity[1][i],
                             GaussianFilter(c.incremental_capacity[1],
                                            Sigma(c.voltage_inverted_step[1]))[i])
          /\ after.incremental_capacity[1][i].by = after.incremental_capacity[1][1].by

C28_SmoothedAndNormalised ==
    [][(/\ ret'.op = "post_process_data"
        /\ ret'.raised = "none"
        /\ SmoothingAndNormalising(converter)
        /\ Varying(converter.incremental_capacity[1])) =>
            SmoothedThenScaled(converter, converter')]_vars

\* C29: every Doer has as many farms as experiments, and each farm is a list
\* of its own: no two farms, of one Doer or of two, are the same list, so
\* that what is added to one is not seen in another.
FarmSlots == {<<k, i>> : k \in 1..Len(doers), i \in 1..MaxExperiments}

HasFarm(slot) == slot[2] <= Len(doers[slot[1]].farms)

C29_OneFarmOfItsOwnPerExperiment ==
    /\ \A k \in 1..Len(doers) : Len(doers[k].farms) = Len(doers[k].experiments)
    /\ \A a, b \in FarmSlots :
          (HasFarm(a) /\ HasFarm(b) /\ a # b) =>
              doers[a[1]].farms[a[2]] # doers[b[1]].farms[b[2]]

\* C30: the type of a row of the step table is one of the seven labels the
\* classifier writes (ocvrlx_up, ocvrlx_down, discharge, charge, cv_discharge,
\* cv_charge, ir) or is left unset; it is never rest, charge_cv or
\* discharge_cv, which get_step_numbers accepts as step types, and so a row
\* of zero current whose voltage neither rises nor falls past the hard limit
\* is not typed rest.
NeverWritten == {"rest", "charge_cv", "discharge_cv"}

IsAtRest(r) ==
    /\ mask_no_current_hard(r)
    /\ ~mask_voltage_up(r)
    /\ ~mask_voltage_down(r)

C30_OnlySevenLabelsWritten ==
    /\ NeverWritten \subseteq SeqToSet(list_of_step_types)
    /\ \A r \in TableRows :
          /\ r.type \in SeqToSet(RuleLabels) \cup {NotSet}
          /\ r.type \notin NeverWritten
          /\ IsAtRest(r) => r.type # "rest"

\* a table with a row of zero current and steady voltage typed ir, or with one
\* whose voltage drifts a little, left unset
C30_Witness ==
    \E r \in TableRows :
        /\ IsAtRest(r)
        /\ \/ r.type = "ir"
           \/ r.type = NotSet /\ r.V_delta # Num(0)

====
